---- MODULE Spec2Model ----
(***************************************************************************)
(* A state-machine model of the chess program in src/src/main.rs: the      *)
(* ChessGame fields, the rules functions (validate_move and its helpers,   *)
(* is_square_attacked, is_king_in_check, generate_valid_moves, the         *)
(* heuristic opponent, the FEN codec) and the three event handlers         *)
(* (mouse_button_down_event, key_down_event, update).                      *)
(*                                                                         *)
(* A game value g is a record [board, turn, castling_rights,               *)
(* en_passant_target]: the fields the rules functions read through &self.  *)
(* A clone of the game is a copy of that record.                           *)
(***************************************************************************)
EXTENDS Integers, Sequences, FiniteSets, TLC

----------------------------------------------------------------------------
(* Data                                                                    *)

BOARD_SIZE == 8

Rows == 0 .. (BOARD_SIZE - 1)

\* A square is <<row, col>>.
Squares == Rows \X Rows

\* Option::None for a square (selected, en_passant_target, promotion_square).
NoSquare == << >>

\* Square { occupant: None }.
NoPiece == [piece_type |-> "None", color |-> "None", has_moved |-> FALSE]

Piece(t, c) == [piece_type |-> t, color |-> c, has_moved |-> FALSE]

Abs(x) == IF x < 0 THEN -x ELSE x

Signum(x) == IF x < 0 THEN -1 ELSE IF x > 0 THEN 1 ELSE 0

Opposite(c) == IF c = "White" THEN "Black" ELSE "White"

\* place_back_rank: the piece kind on each column of a back rank.
place_back_rank(col) ==
    CASE col = 0 -> "Rook"
      [] col = 7 -> "Rook"
      [] col = 1 -> "Knight"
      [] col = 6 -> "Knight"
      [] col = 2 -> "Bishop"
      [] col = 5 -> "Bishop"
      [] col = 3 -> "Queen"
      [] col = 4 -> "King"

\* ChessBoard::new_standard: Black on rows 0 and 1, White on rows 6 and 7.
new_standard ==
    [sq \in Squares |->
        IF sq[1] = 6 THEN Piece("Pawn", "White")
        ELSE IF sq[1] = 1 THEN Piece("Pawn", "Black")
        ELSE IF sq[1] = 0 THEN Piece(place_back_rank(sq[2]), "Black")
        ELSE IF sq[1] = 7 THEN Piece(place_back_rank(sq[2]), "White")
        ELSE NoPiece]

\* String::contains for a one-character pattern; a string is a sequence of
\* one-character strings.
Contains(s, ch) == \E i \in 1 .. Len(s) : s[i] = ch

\* String::replace(ch, "").
Remove(s, ch) == SelectSeq(s, LAMBDA x : x # ch)

\* The board after the naive move used by every simulation: the occupant of
\* start is taken and put on end.
simulate(g, start, end) ==
    [g EXCEPT !.board = [g.board EXCEPT ![start] = NoPiece, ![end] = g.board[start]]]

----------------------------------------------------------------------------
(* Piece geometry                                                          *)

RECURSIVE path_walk(_, _, _, _, _)
\* The while loop of path_is_clear, from the current square.
path_walk(g, cur, end, row_step, col_step) ==
    IF cur = end THEN TRUE
    ELSE IF g.board[cur] # NoPiece THEN FALSE
    ELSE path_walk(g, <<cur[1] + row_step, cur[2] + col_step>>, end, row_step, col_step)

path_is_clear(g, start, end) ==
    LET row_step == Signum(end[1] - start[1])
        col_step == Signum(end[2] - start[2])
    IN  path_walk(g, <<start[1] + row_step, start[2] + col_step>>, end, row_step, col_step)

validate_pawn_move(g, start, end, color) ==
    LET direction == IF color = "White" THEN -1 ELSE 1
        start_row == start[1]
        start_col == start[2]
        end_row   == end[1]
        end_col   == end[2]
    IN  IF end_row = start_row + direction /\ end_col = start_col
        THEN g.board[end] = NoPiece
        ELSE IF /\ end_row = start_row + 2 * direction
                /\ end_col = start_col
                /\ g.board[start] # NoPiece
                /\ ~ g.board[start].has_moved
                /\ g.board[<<start_row + direction, start_col>>] = NoPiece
                /\ g.board[end] = NoPiece
        THEN TRUE
        ELSE IF /\ end_row = start_row + direction
                /\ (end_col = start_col + 1 \/ end_col = start_col - 1)
        THEN \/ g.board[end] # NoPiece
             \/ (g.en_passant_target # NoSquare /\ end = g.en_passant_target)
        ELSE FALSE

validate_knight_move(g, start, end) ==
    LET row_diff == Abs(start[1] - end[1])
        col_diff == Abs(start[2] - end[2])
    IN  (row_diff = 2 /\ col_diff = 1) \/ (row_diff = 1 /\ col_diff = 2)

\* validate_bishop_move without the path check: a bishop that jumps.
validate_bishop_move_jumping(g, start, end) ==
    Abs(start[1] - end[1]) = Abs(start[2] - end[2])

validate_bishop_move(g, start, end) ==
    LET row_diff == Abs(start[1] - end[1])
        col_diff == Abs(start[2] - end[2])
    IN  IF row_diff = col_diff THEN path_is_clear(g, start, end) ELSE FALSE

\* validate_rook_move without the path check: a rook that jumps.
validate_rook_move_jumping(g, start, end) ==
    start[1] = end[1] \/ start[2] = end[2]

validate_rook_move(g, start, end) ==
    IF start[1] = end[1] \/ start[2] = end[2]
    THEN path_is_clear(g, start, end)
    ELSE FALSE

validate_queen_move(g, start, end) ==
    validate_rook_move(g, start, end) \/ validate_bishop_move(g, start, end)

\* The attack oracle: some piece whose colour is not `color` has attacking
\* geometry to `square`.
is_square_attacked(g, square, color) ==
    LET row == square[1]
        col == square[2]
    IN  \E sq \in Squares :
          LET piece == g.board[sq]
              r == sq[1]
              c == sq[2]
          IN  /\ piece # NoPiece
              /\ piece.color # color
              /\ CASE piece.piece_type = "Pawn" ->
                        LET direction == IF piece.color = "White" THEN -1 ELSE 1
                        IN  \/ (r + direction = row /\ c - 1 = col)
                            \/ (r + direction = row /\ c + 1 = col)
                   [] piece.piece_type = "Knight" ->
                        \E d \in {<<-2, -1>>, <<-2, 1>>, <<2, -1>>, <<2, 1>>,
                                  <<-1, -2>>, <<-1, 2>>, <<1, -2>>, <<1, 2>>} :
                            r + d[1] = row /\ c + d[2] = col
                   [] piece.piece_type = "Bishop" ->
                        /\ Abs(row - r) = Abs(col - c)
                        /\ path_is_clear(g, sq, square)
                   [] piece.piece_type = "Rook" ->
                        /\ (r = row \/ c = col)
                        /\ path_is_clear(g, sq, square)
                   [] piece.piece_type = "Queen" ->
                        /\ (Abs(row - r) = Abs(col - c) \/ r = row \/ c = col)
                        /\ path_is_clear(g, sq, square)
                   [] piece.piece_type = "King" ->
                        Abs(row - r) <= 1 /\ Abs(col - c) <= 1

\* validate_king_castling with the emptiness loop run up to and including
\* the rook's column.
validate_king_castling_through_rook(g, start, end) ==
    LET is_king_side == end[2] > start[2]
        castling_right ==
            IF g.turn = "White"
            THEN (IF is_king_side THEN "K" ELSE "Q")
            ELSE (IF is_king_side THEN "k" ELSE "q")
        rook_col == IF is_king_side THEN 7 ELSE 0
        between == IF is_king_side THEN (start[2] + 1) .. rook_col
                   ELSE rook_col .. (start[2] - 1)
    IN  /\ start[1] = end[1]
        /\ Abs(end[2] - start[2]) = 2
        /\ Contains(g.castling_rights, castling_right)
        /\ \A col \in between : g.board[<<start[1], col>>] = NoPiece
        /\ g.board[<<start[1], rook_col>>].piece_type = "Rook"
        /\ g.board[<<start[1], rook_col>>].color = g.turn

validate_king_castling(g, start, end) ==
    LET start_row == start[1]
        start_col == start[2]
        end_row   == end[1]
        end_col   == end[2]
        is_king_side == end_col > start_col
        castling_right ==
            IF g.turn = "White"
            THEN (IF is_king_side THEN "K" ELSE "Q")
            ELSE (IF is_king_side THEN "k" ELSE "q")
        rook_col == IF is_king_side THEN 7 ELSE 0
        step == IF is_king_side THEN 1 ELSE -1
        \* the half-open range (start_col + step .. end_col): empty when it
        \* would run downwards
        between == (start_col + step) .. (end_col - 1)
    IN  IF start_row = end_row /\ Abs(end_col - start_col) = 2
        THEN IF ~ Contains(g.castling_rights, castling_right) THEN FALSE
             ELSE IF \E col \in between : g.board[<<start_row, col>>] # NoPiece THEN FALSE
             ELSE /\ g.board[<<start_row, rook_col>>] # NoPiece
                  /\ g.board[<<start_row, rook_col>>].piece_type = "Rook"
                  /\ g.board[<<start_row, rook_col>>].color = g.turn
        ELSE FALSE

\* validate_king_move without the attack test on the destination.
validate_king_move_unchecked(g, start, end) ==
    IF Abs(start[1] - end[1]) <= 1 /\ Abs(start[2] - end[2]) <= 1 THEN TRUE
    ELSE validate_king_castling(g, start, end)

validate_king_move(g, start, end) ==
    LET row_diff == Abs(start[1] - end[1])
        col_diff == Abs(start[2] - end[2])
    IN  IF row_diff <= 1 /\ col_diff <= 1
        THEN ~ is_square_attacked(simulate(g, start, end), end, g.turn)
        ELSE validate_king_castling(g, start, end)

\* ChessGame::find_king: the first king of the colour in row-major order.
find_king(g, color) ==
    LET kings == {sq \in Squares : /\ g.board[sq].piece_type = "King"
                                   /\ g.board[sq].color = color}
    IN  IF kings = {} THEN NoSquare
        ELSE CHOOSE k \in kings :
                \A o \in kings : k[1] < o[1] \/ (k[1] = o[1] /\ k[2] <= o[2])

\* is_valid without the test of the piece's colour against the turn.
is_valid_any_colour(g, start, end) ==
    LET piece == g.board[start]
    IN  IF start \notin Squares \/ end \notin Squares THEN FALSE
        ELSE IF piece = NoPiece THEN FALSE
        ELSE IF g.board[end] # NoPiece /\ g.board[end].color = piece.color THEN FALSE
        ELSE CASE piece.piece_type = "Pawn"   -> validate_pawn_move(g, start, end, piece.color)
               [] piece.piece_type = "Knight" -> validate_knight_move(g, start, end)
               [] piece.piece_type = "Bishop" -> validate_bishop_move(g, start, end)
               [] piece.piece_type = "Rook"   -> validate_rook_move(g, start, end)
               [] piece.piece_type = "Queen"  -> validate_queen_move(g, start, end)
               [] piece.piece_type = "King"   -> validate_king_move(g, start, end)

\* validate_move up to and including the match on the piece type: the
\* value of is_valid, FALSE on each early return.
is_valid(g, start, end) ==
    LET piece == g.board[start]
    IN  IF start \notin Squares \/ end \notin Squares THEN FALSE
        ELSE IF piece = NoPiece THEN FALSE
        ELSE IF piece.color # g.turn THEN FALSE
        ELSE IF g.board[end] # NoPiece /\ g.board[end].color = piece.color THEN FALSE
        ELSE CASE piece.piece_type = "Pawn"   -> validate_pawn_move(g, start, end, piece.color)
               [] piece.piece_type = "Knight" -> validate_knight_move(g, start, end)
               [] piece.piece_type = "Bishop" -> validate_bishop_move(g, start, end)
               [] piece.piece_type = "Rook"   -> validate_rook_move(g, start, end)
               [] piece.piece_type = "Queen"  -> validate_queen_move(g, start, end)
               [] piece.piece_type = "King"   -> validate_king_move(g, start, end)

RECURSIVE validate_move(_, _, _)

\* ChessGame::is_king_in_check: some piece of the other colour has a move
\* onto the king's square that validate_move accepts, on this game value
\* (whose turn is the one it was cloned with).  find_king(..).unwrap()
\* panics when the colour has no king: see validate_move_panics.
is_king_in_check(g, color) ==
    LET king == find_king(g, color)
    IN  IF king = NoSquare THEN FALSE
        ELSE \E sq \in Squares :
                /\ g.board[sq] # NoPiece
                /\ g.board[sq].color # color
                /\ validate_move(g, sq, king)

\* ChessGame::validate_move.
validate_move(g, start, end) ==
    IF is_valid(g, start, end)
    THEN IF is_king_in_check(simulate(g, start, end), g.turn) THEN FALSE ELSE TRUE
    ELSE FALSE

RECURSIVE validate_move_depth(_, _, _)

\* The squares for which the loop of is_king_in_check calls validate_move:
\* the pieces of the other colour in row-major order, up to the first one
\* accepted; none when the colour has no king, find_king(color).unwrap()
\* panicking before the loop.
is_king_in_check_calls(g, color) ==
    LET king == find_king(g, color)
        order(sq) == sq[1] * BOARD_SIZE + sq[2]
        others == {sq \in Squares : g.board[sq] # NoPiece /\ g.board[sq].color # color}
    IN  IF king = NoSquare THEN {}
        ELSE {sq \in others :
                 \A o \in others : order(o) < order(sq) => ~ validate_move(g, o, king)}

\* The deepest nesting of validate_move calls under one call of
\* is_king_in_check, 0 when it makes none.
is_king_in_check_depth(g, color) ==
    LET king == find_king(g, color)
        called == is_king_in_check_calls(g, color)
        depths == {validate_move_depth(g, sq, king) : sq \in called}
    IN  IF king = NoSquare \/ called = {} THEN 0
        ELSE CHOOSE d \in depths : \A o \in depths : d >= o

\* The deepest nesting of validate_move calls that one call of
\* validate_move reaches, itself included.
validate_move_depth(g, start, end) ==
    IF is_valid(g, start, end)
    THEN 1 + is_king_in_check_depth(simulate(g, start, end), g.turn)
    ELSE 1

RECURSIVE validate_move_aborts(_, _, _)

\* is_king_in_check does not return: find_king(..).unwrap() panics, or one
\* of the validate_move calls of its loop does not return.
is_king_in_check_aborts(g, color) ==
    \/ find_king(g, color) = NoSquare
    \/ \E sq \in is_king_in_check_calls(g, color) :
          validate_move_aborts(g, sq, find_king(g, color))

\* validate_move does not return, at whatever depth of the recursion.
validate_move_aborts(g, start, end) ==
    /\ is_valid(g, start, end)
    /\ is_king_in_check_aborts(simulate(g, start, end), g.turn)

\* validate_move aborts the process: is_valid holds and the simulated game
\* has no king of the side to move, so find_king(..).unwrap() panics.
validate_move_panics(g, start, end) ==
    /\ is_valid(g, start, end)
    /\ find_king(simulate(g, start, end), g.turn) = NoSquare

\* The two inner loops of generate_valid_moves for the piece on start: the
\* moves pushed for it.
generate_valid_moves_from(g, start) ==
    {<<start, end>> : end \in {e \in Squares : validate_move(g, start, e)}}

\* ChessGame::generate_valid_moves, as the set of the <<start, end>> pairs
\* pushed (the vector holds them in row-major order of start, then of end).
generate_valid_moves(g, color) ==
    UNION {generate_valid_moves_from(g, start) :
            start \in {sq \in Squares : g.board[sq] # NoPiece /\ g.board[sq].color = color}}

\* generate_valid_moves aborts the process: one of its validate_move calls
\* does.  A simulated move never removes a king of the mover's colour, so
\* that needs the colour to have no king before the move.
generate_valid_moves_panics(g, color) ==
    /\ find_king(g, color) = NoSquare
    /\ \E start \in {sq \in Squares : g.board[sq] # NoPiece /\ g.board[sq].color = color} :
          \E end \in Squares : validate_move_panics(g, start, end)

----------------------------------------------------------------------------
(* Heuristic opponent                                                      *)

material(piece_type) ==
    CASE piece_type = "Pawn"   -> 1
      [] piece_type = "Knight" -> 3
      [] piece_type = "Bishop" -> 3
      [] piece_type = "Rook"   -> 5
      [] piece_type = "Queen"  -> 9
      [] piece_type = "King"   -> 1000

is_file_open(g, file) ==
    \A row \in Rows : g.board[<<row, file>>] = NoPiece

is_diagonal_open(g, square) ==
    \A i \in 1 .. (BOARD_SIZE - 1) :
        \A d \in {<<-1, -1>>, <<-1, 1>>, <<1, -1>>, <<1, 1>>} :
            LET pos == <<square[1] + d[1] * i, square[2] + d[2] * i>>
            IN  pos \in Squares => g.board[pos] = NoPiece

calculate_positional_value(g, start, end, moving_piece) ==
    LET end_row == end[1]
        end_col == end[2]
    IN  CASE moving_piece.piece_type = "Pawn" ->
                LET direction == IF moving_piece.color = "White" THEN -1 ELSE 1
                    advancement == (end_row - start[1]) * direction
                    central_bonus == IF end_col = 3 \/ end_col = 4 THEN 1 ELSE 0
                IN  advancement + central_bonus
          [] moving_piece.piece_type = "Knight" ->
                IF (end_row = 3 \/ end_row = 4) /\ (end_col = 3 \/ end_col = 4) THEN 2 ELSE 0
          [] moving_piece.piece_type = "Bishop" ->
                IF is_diagonal_open(g, end) THEN 2 ELSE 0
          [] moving_piece.piece_type = "Rook" ->
                IF is_file_open(g, end_col) THEN 3 ELSE 0
          [] moving_piece.piece_type = "Queen" ->
                IF (end_row = 3 \/ end_row = 4) /\ (end_col = 3 \/ end_col = 4) THEN 1 ELSE 0
          [] moving_piece.piece_type = "King" ->
                IF is_square_attacked(g, end, moving_piece.color) THEN -10 ELSE 0

score_move(g, start, end) ==
    LET moving_piece == g.board[start]
        capture_value ==
            IF g.board[end] # NoPiece THEN material(g.board[end].piece_type) ELSE 0
        moving_piece_value == material(moving_piece.piece_type)
        king_penalty == IF moving_piece.piece_type = "King" THEN -5 ELSE 0
        development_bonus ==
            IF /\ moving_piece.piece_type \in {"Knight", "Bishop"}
               /\ (start[1] = 0 \/ start[1] = 7)
            THEN 3
            ELSE IF moving_piece.piece_type = "Pawn" /\ (end[1] = 2 \/ end[1] = 5)
            THEN 1
            ELSE 0
        positional_value == calculate_positional_value(g, start, end, moving_piece)
    IN  capture_value + moving_piece_value + king_penalty + development_bonus
            + positional_value

\* The place of a move in the vector generate_valid_moves builds.
MoveIndex(m) ==
    ((m[1][1] * BOARD_SIZE + m[1][2]) * BOARD_SIZE + m[2][1]) * BOARD_SIZE + m[2][2]

\* choose_ai_move without the scores: the first move generated.
choose_ai_move_first_generated(g) ==
    LET valid_moves == generate_valid_moves(g, g.turn)
    IN  IF valid_moves = {} THEN NoSquare
        ELSE CHOOSE m \in valid_moves : \A o \in valid_moves : MoveIndex(m) <= MoveIndex(o)

\* ChessGame::choose_ai_move: Iterator::max_by_key returns the last of the
\* elements with the maximum key.  NoSquare stands for Option::None.
choose_ai_move(g) ==
    LET valid_moves == generate_valid_moves(g, g.turn)
        score == [m \in valid_moves |-> score_move(g, m[1], m[2])]
        best == {m \in valid_moves : \A o \in valid_moves : score[m] >= score[o]}
    IN  IF valid_moves = {} THEN NoSquare
        ELSE CHOOSE m \in best : \A o \in best : MoveIndex(m) >= MoveIndex(o)

----------------------------------------------------------------------------
(* The move executor parts of the click handler                           *)

\* A variant that gives every flag back once start has been vacated.
update_castling_rights_regaining(g, start) ==
    IF g.board[start] = NoPiece THEN <<"K", "Q", "k", "q">> ELSE g.castling_rights

\* ChessGame::update_castling_rights: the new castling_rights, decided by
\* the occupant that start holds when it is called.
update_castling_rights(g, start) ==
    LET piece == g.board[start]
        after_king ==
            IF piece.piece_type = "King"
            THEN IF piece.color = "White"
                 THEN Remove(Remove(g.castling_rights, "K"), "Q")
                 ELSE Remove(Remove(g.castling_rights, "k"), "q")
            ELSE g.castling_rights
    IN  IF piece = NoPiece THEN g.castling_rights
        ELSE IF piece.piece_type = "Rook"
        THEN IF piece.color = "White"
             THEN IF start = <<7, 0>> THEN Remove(after_king, "Q")
                  ELSE IF start = <<7, 7>> THEN Remove(after_king, "K")
                  ELSE after_king
             ELSE IF start = <<0, 0>> THEN Remove(after_king, "q")
                  ELSE IF start = <<0, 7>> THEN Remove(after_king, "k")
                  ELSE after_king
        ELSE after_king

\* ChessGame::perform_castling: the board after the rook's relocation.
perform_castling(b, start, end) ==
    LET start_row == start[1]
        is_king_side == end[2] > start[2]
        rook_start_col == IF is_king_side THEN 7 ELSE 0
        rook_end_col == IF is_king_side THEN end[2] - 1 ELSE end[2] + 1
        rook == b[<<start_row, rook_start_col>>]
    IN  [[b EXCEPT ![<<start_row, rook_start_col>>] = NoPiece]
            EXCEPT ![<<start_row, rook_end_col>>] = rook]

\* ChessGame::promote_pawn: the board after the promotion choice.
\* promote_pawn ignoring the chosen kind.
promote_pawn_to_queen(b, position, new_piece_type) ==
    IF b[position] # NoPiece /\ b[position].piece_type = "Pawn"
    THEN [b EXCEPT ![position].piece_type = "Queen"]
    ELSE b

promote_pawn(b, position, new_piece_type) ==
    IF b[position] # NoPiece /\ b[position].piece_type = "Pawn"
    THEN [b EXCEPT ![position] = [piece_type |-> new_piece_type,
                                  color |-> b[position].color,
                                  has_moved |-> b[position].has_moved]]
    ELSE b

----------------------------------------------------------------------------
(* FEN parsing.  A string is a sequence of one-character strings.          *)

IsDigit(ch) == ch \in {"0", "1", "2", "3", "4", "5", "6", "7", "8", "9"}

\* char::to_digit(10) of a digit.
DigitValue(ch) ==
    CASE ch = "0" -> 0 [] ch = "1" -> 1 [] ch = "2" -> 2 [] ch = "3" -> 3
      [] ch = "4" -> 4 [] ch = "5" -> 5 [] ch = "6" -> 6 [] ch = "7" -> 7
      [] ch = "8" -> 8 [] ch = "9" -> 9

\* char::is_whitespace, the Unicode White_Space property: U+0009 to U+000D
\* (tab, line feed, vertical tab, form feed, carriage return), the space,
\* U+0085, U+00A0 and U+1680, written here in that order.  U+2000 to U+200A,
\* U+2028, U+2029, U+202F, U+205F and U+3000 have the property too and cannot
\* be written in a string of this language.
White_Space ==
    {"\t", "\n", "", "\f", "\r", " ", "", " ", " "}

RECURSIVE split_whitespace_from(_, _, _)
\* str::split_whitespace: the maximal runs of characters that are not
\* whitespace.
split_whitespace_from(s, i, cur) ==
    IF i > Len(s) THEN (IF cur = << >> THEN << >> ELSE <<cur>>)
    ELSE IF s[i] \in White_Space
    THEN (IF cur = << >> THEN << >> ELSE <<cur>>) \o split_whitespace_from(s, i + 1, << >>)
    ELSE split_whitespace_from(s, i + 1, Append(cur, s[i]))

split_whitespace(s) == split_whitespace_from(s, 1, << >>)

RECURSIVE split_from(_, _, _, _)
\* str::split(sep): the pieces between separators, empty ones kept.
split_from(s, sep, i, cur) ==
    IF i > Len(s) THEN <<cur>>
    ELSE IF s[i] = sep THEN <<cur>> \o split_from(s, sep, i + 1, << >>)
    ELSE split_from(s, sep, i + 1, Append(cur, s[i]))

split(s, sep) == split_from(s, sep, 1, << >>)

\* char_to_piece: NoPiece stands for None.
char_to_piece(ch) ==
    LET color == IF ch \in {"P", "N", "B", "R", "Q", "K"} THEN "White" ELSE "Black"
        piece_type ==
            CASE ch \in {"p", "P"} -> "Pawn"
              [] ch \in {"n", "N"} -> "Knight"
              [] ch \in {"b", "B"} -> "Bishop"
              [] ch \in {"r", "R"} -> "Rook"
              [] ch \in {"q", "Q"} -> "Queen"
              [] ch \in {"k", "K"} -> "King"
              [] OTHER -> "None"
    IN  IF piece_type = "None" THEN NoPiece ELSE Piece(piece_type, color)

\* (file as u8).wrapping_sub(b'a'): the column of a file letter; any other
\* character gives a column off the board.
file_column(ch) ==
    CASE ch = "a" -> 0 [] ch = "b" -> 1 [] ch = "c" -> 2 [] ch = "d" -> 3
      [] ch = "e" -> 4 [] ch = "f" -> 5 [] ch = "g" -> 6 [] ch = "h" -> 7
      [] OTHER -> BOARD_SIZE

\* The characters U+0020 to U+007E but U+0060, which cannot be written in a
\* string of this language.
AsciiPrintable ==
    {" ", "!", "\"", "#", "$", "%", "&", "'", "(", ")", "*", "+", ",", "-",
     ".", "/", "0", "1", "2", "3", "4", "5", "6", "7", "8", "9", ":", ";",
     "<", "=", ">", "?", "@", "A", "B", "C", "D", "E", "F", "G", "H", "I",
     "J", "K", "L", "M", "N", "O", "P", "Q", "R", "S", "T", "U", "V", "W",
     "X", "Y", "Z", "[", "\\", "]", "^", "_", "a", "b", "c", "d", "e", "f",
     "g", "h", "i", "j", "k", "l", "m", "n", "o", "p", "q", "r", "s", "t",
     "u", "v", "w", "x", "y", "z", "{", "|", "}", "~"}

\* The characters U+0001 to U+001F and U+007F.  (U+0000 cannot occur in a
\* command-line argument.)
AsciiControl ==
    {"\t", "\n", "\f", "\r",
     "", "", "", "", "", "", "", "", "", "",
     "", "", "", "", "", "", "", "", "", "",
     "", "", "", "", "", "", "", ""}

\* char::is_ascii.
is_ascii(ch) == ch \in AsciiPrintable \cup AsciiControl

\* algebraic_to_square: [status, square], square NoSquare for None.
\* pos.len() is the length in bytes: it is 2 for two ASCII characters and for
\* one character of two bytes, for which chars().nth(1) is None, so that only
\* a string of two ASCII characters goes on.  With a rank of 9 the
\* subtraction 8 - rank underflows usize: a panic in a build with overflow
\* checks, a row far off the board in one without.
algebraic_to_square(pos, overflow_checks) ==
    IF Len(pos) # 2 \/ ~ is_ascii(pos[1]) \/ ~ is_ascii(pos[2])
    THEN [status |-> "Ok", square |-> NoSquare]
    ELSE IF ~ IsDigit(pos[2]) THEN [status |-> "Ok", square |-> NoSquare]
    ELSE LET col == file_column(pos[1])
             rank == DigitValue(pos[2])
         IN  IF rank > 8
             THEN [status |-> IF overflow_checks THEN "Panic" ELSE "Ok",
                   square |-> NoSquare]
             ELSE IF col < BOARD_SIZE /\ 8 - rank < BOARD_SIZE
             THEN [status |-> "Ok", square |-> <<8 - rank, col>>]
             ELSE [status |-> "Ok", square |-> NoSquare]

\* A u32 is held as <<high, low>>, its two 16-bit halves: the value is
\* high * Half + low.  (The values of the model checker's integers end at
\* 2^31 - 1.)
Half == 65536

\* The u32 of a number below 2^31.
U32(n) == <<n \div Half, n % Half>>

\* u32::MAX, 4294967295.
U32Max == <<Half - 1, Half - 1>>

\* n + 1 in the integers, held as a u32 is: the high half of the sum is
\* Half when n is u32::MAX.
PlusOne(n) == IF n[2] = Half - 1 THEN <<n[1] + 1, 0>> ELSE <<n[1], n[2] + 1>>

\* u32::wrapping_add(n, 1): what n += 1 stores in a build without overflow
\* checks.
wrapping_add_one(n) == IF n = U32Max THEN U32(0) ELSE PlusOne(n)

\* 10 * acc + d as a u32, for acc and the sum at most u32::MAX.
times_ten_plus(acc, d) ==
    <<10 * acc[1] + (10 * acc[2] + d) \div Half, (10 * acc[2] + d) % Half>>

RECURSIVE decimal_value(_, _, _)
decimal_value(s, i, acc) ==
    IF i > Len(s) THEN acc
    ELSE decimal_value(s, i + 1, times_ten_plus(acc, DigitValue(s[i])))

RECURSIVE strip_zeros(_)
strip_zeros(s) == IF Len(s) > 1 /\ s[1] = "0" THEN strip_zeros(Tail(s)) ELSE s

RECURSIVE digits_above(_, _, _)
\* Digit strings of equal length compared from position i on: s > t.
digits_above(s, t, i) ==
    IF i > Len(s) THEN FALSE
    ELSE IF DigitValue(s[i]) # DigitValue(t[i]) THEN DigitValue(s[i]) > DigitValue(t[i])
    ELSE digits_above(s, t, i + 1)

\* u32::MAX, 4294967295, digit by digit.
U32MaxDigits == <<"4", "2", "9", "4", "9", "6", "7", "2", "9", "5">>

\* What parse_u32 gives for Err.
ParseErr == << >>

\* str::parse::<u32>: an optional + and at least one digit, the value at most
\* u32::MAX.
parse_u32(s) ==
    LET digits == IF Len(s) > 0 /\ s[1] = "+" THEN Tail(s) ELSE s
        significant == strip_zeros(digits)
    IN  IF digits = << >> THEN ParseErr
        ELSE IF \E i \in 1 .. Len(digits) : ~ IsDigit(digits[i]) THEN ParseErr
        ELSE IF Len(significant) > Len(U32MaxDigits) THEN ParseErr
        ELSE IF Len(significant) = Len(U32MaxDigits)
                /\ digits_above(significant, U32MaxDigits, 1) THEN ParseErr
        ELSE decimal_value(significant, 1, U32(0))

RECURSIVE fen_empty_run(_, _, _, _)
\* for _ in 0..empty_count: the squares emptied from col on; indexing a
\* column off the board panics.
fen_empty_run(b, row, col, empty_count) ==
    IF empty_count = 0 THEN [status |-> "Ok", board |-> b, col |-> col]
    ELSE IF col >= BOARD_SIZE THEN [status |-> "Panic", board |-> b, col |-> col]
    ELSE fen_empty_run([b EXCEPT ![<<row, col>>] = NoPiece], row, col + 1, empty_count - 1)

RECURSIVE fen_row(_, _, _, _, _)
\* The loop over the characters of one rank of the placement field.
fen_row(b, row, row_data, i, col) ==
    IF i > Len(row_data)
    THEN [status |-> IF col # BOARD_SIZE THEN "Err" ELSE "Ok", board |-> b, col |-> col]
    ELSE IF IsDigit(row_data[i])
    THEN LET run == fen_empty_run(b, row, col, DigitValue(row_data[i]))
         IN  IF run.status # "Ok" THEN run
             ELSE fen_row(run.board, row, row_data, i + 1, run.col)
    ELSE IF char_to_piece(row_data[i]) = NoPiece
    THEN [status |-> "Err", board |-> b, col |-> col]
    ELSE IF col >= BOARD_SIZE THEN [status |-> "Panic", board |-> b, col |-> col]
    ELSE fen_row([b EXCEPT ![<<row, col>>] = char_to_piece(row_data[i])],
                 row, row_data, i + 1, col + 1)

RECURSIVE fen_rows(_, _, _)
\* for (row, row_data) in rows.iter().rev().enumerate(): board row `row` is
\* filled from the rank that is `row` places from the end of the field.
fen_rows(b, rows, row) ==
    IF row = BOARD_SIZE THEN [status |-> "Ok", board |-> b]
    ELSE LET r == fen_row(b, row, rows[Len(rows) - row], 1, 0)
         IN  IF r.status # "Ok" THEN [status |-> r.status, board |-> r.board]
             ELSE fen_rows(r.board, rows, row + 1)

\* ChessGame::from_fen on the game fields f: the fields after the call and
\* its status, "Ok", "Err" or "Panic".  Fields assigned before an error
\* keep their new values.
from_fen(f, fen, overflow_checks) ==
    LET parts == split_whitespace(fen)
        rows == split(parts[1], "/")
        placed == fen_rows(f.board, rows, 0)
        f1 == [f EXCEPT !.board = placed.board]
        f2 == [f1 EXCEPT !.turn = IF parts[2] = <<"w">> THEN "White" ELSE "Black"]
        f3 == [f2 EXCEPT !.castling_rights = parts[3]]
        ep == IF parts[4] = <<"-">> THEN [status |-> "Ok", square |-> NoSquare]
              ELSE algebraic_to_square(parts[4], overflow_checks)
        f4 == [f3 EXCEPT !.en_passant_target = ep.square]
        f5 == [f4 EXCEPT !.halfmove_clock = parse_u32(parts[5])]
        f6 == [f5 EXCEPT !.fullmove_number = parse_u32(parts[6])]
    IN  IF Len(parts) < 6 THEN [status |-> "Err", fields |-> f]
        ELSE IF Len(rows) # BOARD_SIZE THEN [status |-> "Err", fields |-> f]
        ELSE IF placed.status # "Ok" THEN [status |-> placed.status, fields |-> f1]
        ELSE IF parts[2] # <<"w">> /\ parts[2] # <<"b">> THEN [status |-> "Err", fields |-> f1]
        ELSE IF ep.status # "Ok" THEN [status |-> ep.status, fields |-> f3]
        ELSE IF parse_u32(parts[5]) = ParseErr THEN [status |-> "Err", fields |-> f4]
        ELSE IF parse_u32(parts[6]) = ParseErr THEN [status |-> "Err", fields |-> f5]
        ELSE [status |-> "Ok", fields |-> f6]

\* rnbqkbnr/pppppppp/8/8/8/8/PPPPPPPP/RNBQKBNR w KQkq - 0 1
StandardFen ==
    <<"r", "n", "b", "q", "k", "b", "n", "r", "/",
       "p", "p", "p", "p", "p", "p", "p", "p", "/",
       "8", "/", "8", "/", "8", "/", "8", "/", "P",
       "P", "P", "P", "P", "P", "P", "P", "/", "R",
       "N", "B", "Q", "K", "B", "N", "R", " ", "w",
       " ", "K", "Q", "k", "q", " ", "-", " ", "0",
       " ", "1">>

----------------------------------------------------------------------------
(* FEN emission                                                            *)

\* The character of a decimal digit.
digit_char(d) == <<"0", "1", "2", "3", "4", "5", "6", "7", "8", "9">>[d + 1]

RECURSIVE to_string(_)
\* ToString of an unsigned integer: its decimal digits, no leading zero.
to_string(n) ==
    IF n < 10 THEN <<digit_char(n)>>
    ELSE Append(to_string(n \div 10), digit_char(n % 10))

RECURSIVE u32_to_string(_)
\* ToString of a u32: the same digits, by long division of the two halves.
u32_to_string(n) ==
    LET rest == (n[1] % 10) * Half + n[2]
    IN  IF n[1] = 0 /\ n[2] < 10 THEN <<digit_char(n[2])>>
        ELSE Append(u32_to_string(<<n[1] \div 10, rest \div 10>>),
                    digit_char(rest % 10))

\* char::to_ascii_uppercase on the six piece letters.
to_ascii_uppercase(ch) ==
    CASE ch = "p" -> "P" [] ch = "n" -> "N" [] ch = "b" -> "B"
      [] ch = "r" -> "R" [] ch = "q" -> "Q" [] ch = "k" -> "K"

piece_to_fen_char(piece) ==
    LET ch == CASE piece.piece_type = "Pawn" -> "p"
                [] piece.piece_type = "Knight" -> "n"
                [] piece.piece_type = "Bishop" -> "b"
                [] piece.piece_type = "Rook" -> "r"
                [] piece.piece_type = "Queen" -> "q"
                [] piece.piece_type = "King" -> "k"
    IN  IF piece.color = "White" THEN to_ascii_uppercase(ch) ELSE ch

\* The file letter followed by row + 1: the rank counted from row 0.
square_to_algebraic_unflipped(row, col) ==
    <<(<<"a", "b", "c", "d", "e", "f", "g", "h">>)[col + 1]>> \o to_string(row + 1)

\* (b'a' + col as u8) as char followed by (8 - row) as u8.
square_to_algebraic(row, col) ==
    <<(<<"a", "b", "c", "d", "e", "f", "g", "h">>)[col + 1]>> \o to_string(8 - row)

RECURSIVE to_fen_row(_, _, _, _)
\* The loop over the columns of one row, from col on with empty_count empty
\* squares pending, and the flush after it.
to_fen_row(b, row, col, empty_count) ==
    LET flush == IF empty_count > 0 THEN to_string(empty_count) ELSE << >>
    IN  IF col = BOARD_SIZE THEN flush
        ELSE IF b[<<row, col>>] # NoPiece
        THEN flush \o <<piece_to_fen_char(b[<<row, col>>])>> \o to_fen_row(b, row, col + 1, 0)
        ELSE to_fen_row(b, row, col + 1, empty_count + 1)

RECURSIVE to_fen_rows_ascending(_, _)
\* The rows written from row 0 up: the loop without .rev().
to_fen_rows_ascending(b, row) ==
    to_fen_row(b, BOARD_SIZE - 1 - row, 0, 0)
        \o (IF row > 0 THEN <<"/">> \o to_fen_rows_ascending(b, row - 1) ELSE << >>)

RECURSIVE to_fen_rows(_, _)
\* for row in (0..BOARD_SIZE).rev(): the rows from `row` down to 0, a slash
\* after each but row 0.
to_fen_rows(b, row) ==
    to_fen_row(b, row, 0, 0)
        \o (IF row > 0 THEN <<"/">> \o to_fen_rows(b, row - 1) ELSE << >>)

\* ChessGame::to_fen on the game fields f.
to_fen(f) ==
    to_fen_rows(f.board, BOARD_SIZE - 1)
        \o <<" ", IF f.turn = "White" THEN "w" ELSE "b", " ">>
        \o (IF f.castling_rights = << >> THEN <<"-">> ELSE f.castling_rights)
        \o <<" ">>
        \o (IF f.en_passant_target # NoSquare
            THEN square_to_algebraic(f.en_passant_target[1], f.en_passant_target[2])
            ELSE <<"-">>)
        \o <<" ">> \o u32_to_string(f.halfmove_clock)
        \o <<" ">> \o u32_to_string(f.fullmove_number)

----------------------------------------------------------------------------
(* State                                                                   *)

\* The ChessGame fields.  needs_redraw (set by new and never cleared),
\* pieces and tile_size play no part in the rules and are left out;
\* valid_moves is held as the set of its elements.
\* panicked: the process has aborted in a panic.
\* overflow_checks: the build checks integer overflow (a debug build) or
\* wraps (a release build).
\* fen: the --fen argument of Args, NoFen when it is not given; loaded: what
\* main got from from_fen, "Ok" also when there was nothing to load.  The
\* event loop runs only when loaded is "Ok".
\* plies: the number of moves applied so far; region: the part of the board
\* the user's clicks are drawn from.  Both belong to the environment.
VARIABLES board, turn, castling_rights, en_passant_target, halfmove_clock,
          fullmove_number, selected, valid_moves, show_possible_moves,
          has_ai_opponent, promotion_square, panicked, fen, loaded, plies,
          region, overflow_checks

vars == <<board, turn, castling_rights, en_passant_target, halfmove_clock,
          fullmove_number, selected, valid_moves, show_possible_moves,
          has_ai_opponent, promotion_square, panicked, fen, loaded, plies,
          region,
          overflow_checks>>

\* Args::fen when the option is absent.
NoFen == <<"none">>

\* The game value the rules functions read through &self.
Self ==
    [board |-> board, turn |-> turn, castling_rights |-> castling_rights,
     en_passant_target |-> en_passant_target,
     halfmove_clock |-> halfmove_clock, fullmove_number |-> fullmove_number]

----------------------------------------------------------------------------
(* Bounds of the exploration                                               *)

\* Moves applied from the opening with clicks anywhere on the board.
MaxPlyOpening == 1

\* Moves applied with clicks on the squares of the fool's mate line.
MaxPlyFools == 6

\* Moves applied with clicks on the squares of the king-side castling line:
\* after six, White's king and rook stand unmoved with f1 and g1 empty.
MaxPlyCastle == 6

\* Moves applied with clicks on the squares of the queen-side castling line.
MaxPlyCastleQ == 5

\* Moves applied with clicks on the squares of the en-passant line.
MaxPlyEnPassant == 5

\* Moves applied from a position loaded with --fen, clicks anywhere.
MaxPlyFen == 1

\* Moves applied from a position of the round-trip inputs.
MaxPlyCodec == 1

\* Moves applied from the position with a pawn of each colour one step
\* from its last row.
MaxPlyPromotion == 3

\* Moves applied from the positions that ill-formed FEN strings load.
MaxPlyMalformed == 1

\* Moves applied towards a king's two-column move from the f-file:
\* 1. e3 2. Bd3 3. Qe2 4. Kf1 5. Kd1 with Black's replies.
MaxPlyCastleOff == 9

\* Moves applied from positions loaded with a counter at u32::MAX.
MaxPlyOverflow == 2

MaxPly(r) ==
    CASE r = "opening"   -> MaxPlyOpening
      [] r = "fools"     -> MaxPlyFools
      [] r = "castle"    -> MaxPlyCastle
      [] r = "castleq"   -> MaxPlyCastleQ
      [] r = "enpassant" -> MaxPlyEnPassant
      [] r = "fen"       -> MaxPlyFen
      [] r = "codec"     -> MaxPlyCodec
      [] r = "promotion" -> MaxPlyPromotion
      [] r = "malformed" -> MaxPlyMalformed
      [] r = "castleoff" -> MaxPlyCastleOff
      [] r = "overflow"  -> MaxPlyOverflow

\* A click is <<row, col, half>>: the tile it falls on (row or col outside
\* 0..7 when it misses the board) and the half of the tile, 0 left, 1 right.
OutsideClick == <<BOARD_SIZE, 0, 0>>

OnTiles(S) == {<<sq[1], sq[2], 0>> : sq \in S} \cup {OutsideClick}

\* The squares (2,2), (4,3), (5,5), (3,4), (7,4), (7,3): the knights of
\* OverflowPlacement, a square each can jump to, the king below and the
\* square beside it.
OverflowSquares == {<<2, 2>>, <<4, 3>>, <<5, 5>>, <<3, 4>>, <<7, 4>>, <<7, 3>>}

\* f2 f3 e7 e5 g2 g4 g5 d8 h4 e1
FoolsSquares ==
    {<<6, 5>>, <<5, 5>>, <<1, 4>>, <<3, 4>>, <<6, 6>>, <<4, 6>>, <<3, 6>>,
     <<0, 3>>, <<4, 7>>, <<7, 4>>}

\* g1 f3 e2 e4 f1 e1 g8 f6 g4 e3
CastleSquares ==
    {<<7, 6>>, <<5, 5>>, <<6, 4>>, <<4, 4>>, <<7, 5>>, <<7, 4>>, <<0, 6>>,
     <<2, 5>>, <<4, 6>>, <<5, 4>>}

\* d2 d3 c1 e1 e7 e5 e4
CastleQSquares ==
    {<<6, 3>>, <<5, 3>>, <<7, 2>>, <<7, 4>>, <<1, 4>>, <<3, 4>>, <<4, 4>>}

\* e2 e4 e5 a7 a6 d7 d5 d6
EnPassantSquares ==
    {<<6, 4>>, <<4, 4>>, <<3, 4>>, <<1, 0>>, <<2, 0>>, <<1, 3>>, <<3, 3>>,
     <<2, 3>>}

\* e2 e3 f1 d3 d1 e1 g8 f6
CastleOffSquares ==
    {<<6, 4>>, <<5, 4>>, <<7, 5>>, <<5, 3>>, <<7, 3>>, <<7, 4>>, <<0, 6>>,
     <<2, 5>>}

\* a7 a8 e8 e1
CodecSquares == {<<1, 0>>, <<0, 0>>, <<0, 4>>, <<7, 4>>}

\* a7 a8 b8 c8 d8 h2 h1 g1 f1 e1
PromotionSquares ==
    {<<1, 0>>, <<0, 0>>, <<0, 1>>, <<0, 2>>, <<0, 3>>, <<6, 7>>, <<7, 7>>,
     <<7, 6>>, <<7, 5>>, <<7, 4>>}

Clicks(r) ==
    CASE r = "opening"   -> OnTiles(Squares)
      [] r = "fools"     -> OnTiles(FoolsSquares)
      [] r = "castle"    -> OnTiles(CastleSquares)
      [] r = "castleq"   -> OnTiles(CastleQSquares)
      [] r = "enpassant" -> OnTiles(EnPassantSquares)
      [] r = "fen"       -> OnTiles(Squares)
      [] r = "codec"     -> OnTiles(CodecSquares)
      [] r = "promotion" -> OnTiles(PromotionSquares)
      [] r = "malformed" -> OnTiles(Squares)
      [] r = "castleoff" -> OnTiles(CastleOffSquares)
      [] r = "overflow"  -> OnTiles(OverflowSquares)

----------------------------------------------------------------------------
(* Construction                                                            *)

\* The position fields ChessGame::new sets.
NewFields ==
    [board |-> new_standard, turn |-> "White",
     castling_rights |-> <<"K", "Q", "k", "q">>, en_passant_target |-> NoSquare,
     halfmove_clock |-> U32(0), fullmove_number |-> U32(1)]

\* The game as main leaves it: built by ChessGame::new with the --opponent
\* flag either way, the position fields being f; arg is the --fen argument
\* and status what loading it gave.
Started(f, r, arg, status, checks) ==
    /\ overflow_checks = checks
    /\ board = f.board
    /\ turn = f.turn
    /\ castling_rights = f.castling_rights
    /\ en_passant_target = f.en_passant_target
    /\ halfmove_clock = f.halfmove_clock
    /\ fullmove_number = f.fullmove_number
    /\ selected = NoSquare
    /\ valid_moves = {}
    /\ show_possible_moves = TRUE
    /\ has_ai_opponent \in BOOLEAN
    /\ promotion_square = NoSquare
    /\ panicked = (status = "Panic")
    /\ fen = arg
    /\ loaded = status
    /\ plies = 0
    /\ region = r

\* main without --fen, in either build.
New(r) == \E checks \in BOOLEAN : Started(NewFields, r, NoFen, "Ok", checks)

\* main with --fen: from_fen on the new game.  On Err main returns and on a
\* panic the process aborts, the event loop never starting.
Load(r, inputs) ==
    \E arg \in inputs, checks \in BOOLEAN :
        Started(from_fen(NewFields, arg, checks).fields, r, arg,
                from_fen(NewFields, arg, checks).status, checks)

Init == New("opening")

InitFools == New("fools")

InitCastle == New("castle")

InitCastleQ == New("castleq")

InitEnPassant == New("enpassant")

InitCastleOff == New("castleoff")

\* The strings given to --fen.
FenInputs == {StandardFen}

InitFen == Load("fen", FenInputs)

\* The six fields of a FEN string joined by single spaces.
Fen(placement, colour, castling, ep, halfmove, fullmove) ==
    placement \o <<" ">> \o colour \o <<" ">> \o castling \o <<" ">> \o ep
        \o <<" ">> \o halfmove \o <<" ">> \o fullmove

\* rnbqkbnr/pppppppp/8/8/8/8/PPPPPPPP/RNBQKBNR
StandardPlacement == SubSeq(StandardFen, 1, 43)

\* 4K3/7p/8/8/8/8/P7/4k3
PawnsPlacement ==
    <<"4", "K", "3", "/", "7", "p", "/", "8", "/",
      "8", "/", "8", "/", "8", "/", "P", "7", "/",
      "4", "k", "3">>

\* r3k2r/1b6/8/2pP4/8/5N2/8/R3K2Q
MixedPlacement ==
    <<"r", "3", "k", "2", "r", "/", "1", "b", "6",
      "/", "8", "/", "2", "p", "P", "4", "/", "8",
      "/", "5", "N", "2", "/", "8", "/", "R", "3",
      "K", "2", "Q">>

\* k7/2Q5/8/8/8/8/8/7K: the black king on (7,0) has no square to go to.
StalematePlacement ==
    <<"k", "7", "/", "2", "Q", "5", "/", "8", "/",
      "8", "/", "8", "/", "8", "/", "8", "/", "7", "K">>

Placements == {StandardPlacement, PawnsPlacement, MixedPlacement, StalematePlacement}

\* Well-formed FEN strings whose counters fit 32 bits.
ValidFens ==
    {Fen(placement, colour, castling, ep, halfmove, fullmove) :
        placement \in Placements,
        colour \in {<<"w">>, <<"b">>},
        castling \in {<<"-">>, <<"K", "q">>},
        ep \in {<<"-">>, <<"e", "3">>},
        halfmove \in {<<"0">>, <<"1", "2">>},
        fullmove \in {<<"1">>, <<"4", "0">>}}

\* 4294967296, one more than u32::MAX.
AboveU32 == <<"4", "2", "9", "4", "9", "6", "7", "2", "9", "6">>

\* Well-formed FEN strings with a counter that does not fit 32 bits.
LargeCounterFens ==
    {Fen(PawnsPlacement, <<"w">>, <<"-">>, <<"-">>, <<"0">>, AboveU32),
     Fen(PawnsPlacement, <<"w">>, <<"-">>, <<"-">>, AboveU32, <<"1">>)}

\* 4K3/7p/8/8/8/8/P7/4k3 w - - 0 1: loaded, the white pawn stands on (1,0)
\* and the black pawn on (6,7), each one step from its last row.
PromotionFen == Fen(PawnsPlacement, <<"w">>, <<"-">>, <<"-">>, <<"0">>, <<"1">>)

InitPromotion == Load("promotion", {PromotionFen})

InitCodec == Load("codec", ValidFens \cup LargeCounterFens)

\* rnbqkbnr/pppppppp/8/8/8/8/PPPPPPPP/RNBQKBNR w KQkq - 0: five fields.
FiveFieldFen == SubSeq(StandardFen, 1, Len(StandardFen) - 2)

\* The standard opening with a seventh field, White or Black to move.
SevenFieldFens ==
    {Fen(StandardPlacement, colour, <<"K", "Q", "k", "q">>, <<"-">>, <<"0">>, <<"1">>)
         \o <<" ", "x">> : colour \in {<<"w">>, <<"b">>}}

\* Strings whose number of whitespace-separated fields is not six.
WrongFieldCountFens == {FiveFieldFen} \cup SevenFieldFens

\* The standard placement with its third rank changed: 7 (one square
\* short), 9 and 81 (one square over), and a second rank of nine pawns.
ShortRankPlacement == [StandardPlacement EXCEPT ![19] = "7"]

NineRankPlacement == [StandardPlacement EXCEPT ![19] = "9"]

LongRankPlacement ==
    SubSeq(StandardPlacement, 1, 19) \o <<"1">> \o SubSeq(StandardPlacement, 20, 43)

NinePawnsPlacement ==
    SubSeq(StandardPlacement, 1, 17) \o <<"p">> \o SubSeq(StandardPlacement, 18, 43)

ShortRankFens ==
    {Fen(ShortRankPlacement, <<"w">>, <<"K", "Q", "k", "q">>, <<"-">>, <<"0">>, <<"1">>)}

LongRankFens ==
    {Fen(placement, <<"w">>, <<"K", "Q", "k", "q">>, <<"-">>, <<"0">>, <<"1">>) :
        placement \in {NineRankPlacement, LongRankPlacement, NinePawnsPlacement}}

\* Strings with a rank that does not cover eight squares.
WrongRankSumFens == ShortRankFens \cup LongRankFens

InitMalformed == Load("malformed", WrongFieldCountFens \cup WrongRankSumFens)

\* 4K3/P7/5N2/8/8/2n5/p7/4k3: loaded, the black king stands on (0,4), a black
\* pawn on (1,0), the black knight on (2,2), the white knight on (5,5), a
\* white pawn on (6,0) and the white king on (7,4).
OverflowPlacement ==
    <<"4", "K", "3", "/", "P", "7", "/", "5", "N", "2", "/", "8", "/", "8",
      "/", "2", "n", "5", "/", "p", "7", "/", "4", "k", "3">>

\* Well-formed FEN strings with a counter at u32::MAX or near it.
OverflowFens ==
    {Fen(OverflowPlacement, colour, <<"-">>, <<"-">>, halfmove, fullmove) :
        colour \in {<<"w">>, <<"b">>},
        halfmove \in {<<"5">>, U32MaxDigits},
        fullmove \in {<<"7">>, U32MaxDigits}}

InitOverflow == Load("overflow", OverflowFens)

----------------------------------------------------------------------------
(* Handlers                                                                *)

coords_to_square(click) ==
    IF click[1] \in Rows /\ click[2] \in Rows THEN <<click[1], click[2]>> ELSE NoSquare

PromotionOptions == <<"Queen", "Rook", "Bishop", "Knight">>

\* The promotion option a click falls on, 0 when none: the four option
\* tiles start at column col - 1.5, moved onto the board at either edge, on
\* the row of the promotion square.  Measured in half tiles.
promotion_option(click, square) ==
    LET x2 == 2 * click[2] + click[3]
        raw == 2 * square[2] - 3
        rect_x2 == IF raw < 0 THEN 0
                   ELSE IF raw + 2 * Len(PromotionOptions) > 2 * BOARD_SIZE
                   THEN 2 * BOARD_SIZE - 2 * Len(PromotionOptions)
                   ELSE raw
    IN  IF /\ click[1] = square[1]
           /\ click[2] \in Rows
           /\ rect_x2 <= x2
           /\ x2 < rect_x2 + 2 * Len(PromotionOptions)
        THEN ((x2 - rect_x2) \div 2) + 1
        ELSE 0

\* en_passant_target after the click handler placed piece on `to`.
en_passant_target_stale(piece, from, to) ==
    en_passant_target

en_passant_target_after(piece, from, to) ==
    IF piece.piece_type = "Pawn" /\ Abs(from[1] - to[1]) = 2
    THEN <<(from[1] + to[1]) \div 2, to[2]>>
    ELSE NoSquare

\* self.halfmove_clock += 1 is reached with the clock at u32::MAX.
halfmove_clock_overflows(piece, b, to, clock) ==
    /\ ~ (piece.piece_type = "Pawn" \/ b[to] # NoPiece)
    /\ clock = U32Max

\* halfmove_clock after the click handler placed piece on `to` of board b,
\* when the addition does not panic.
halfmove_clock_after(piece, b, to, clock) ==
    IF piece.piece_type = "Pawn" \/ b[to] # NoPiece
    THEN U32(0) ELSE wrapping_add_one(clock)

\* self.fullmove_number += 1 is reached with the number at u32::MAX.
fullmove_number_overflows(mover, number) ==
    mover = "Black" /\ number = U32Max

fullmove_number_always(mover, number) ==
    wrapping_add_one(number)

\* fullmove_number after a move of the side mover, when the addition does
\* not panic.
fullmove_number_after(mover, number) ==
    IF mover = "Black" THEN wrapping_add_one(number) ELSE number

\* The taking and placing without piece.has_moved = true.
take_and_place_unmarked(b, from, to) ==
    [b EXCEPT ![from] = NoPiece, ![to] = b[from]]

\* The click handler takes the occupant of `from`, sets its has_moved and
\* puts it on `to`.
take_and_place(b, from, to) ==
    [b EXCEPT ![from] = NoPiece, ![to] = [b[from] EXCEPT !.has_moved = TRUE]]

\* The fields the move application of the click handler leaves, for a move
\* from `from` to `to` that validate_move accepted.  panic names the counter
\* whose += 1 overflows in a build with overflow checks, "none" if neither
\* does; placed is the board at that point, before perform_castling.
move_application(from, to) ==
    LET row == to[1]
        col == to[2]
        piece == [board[from] EXCEPT !.has_moved = TRUE]
        board1 == take_and_place(board, from, to)
        ep == en_passant_target_after(piece, from, to)
        captured_pawn_row == IF piece.color = "White" THEN row + 1 ELSE row - 1
        board2 == IF piece.piece_type = "Pawn" /\ to = ep
                  THEN [board1 EXCEPT ![<<captured_pawn_row, col>>] = NoPiece]
                  ELSE board1
        promotion_row == IF piece.color = "White" THEN 0 ELSE 7
        rights == IF piece.piece_type = "Rook" \/ piece.piece_type = "King"
                  THEN update_castling_rights([Self EXCEPT !.board = board2], from)
                  ELSE castling_rights
        board3 == IF piece.piece_type = "King" /\ Abs(from[2] - col) = 2
                  THEN perform_castling(board2, from, to)
                  ELSE board2
    IN  [board |-> board3,
         placed |-> board2,
         panic |->
             IF ~ overflow_checks THEN "none"
             ELSE IF halfmove_clock_overflows(piece, board2, to, halfmove_clock)
             THEN "halfmove_clock"
             ELSE IF fullmove_number_overflows(turn, fullmove_number)
             THEN "fullmove_number"
             ELSE "none",
         en_passant_target |-> ep,
         promotion_square |->
             IF piece.piece_type = "Pawn" /\ row = promotion_row
             THEN to ELSE promotion_square,
         castling_rights |-> rights,
         halfmove_clock |-> halfmove_clock_after(piece, board2, to, halfmove_clock),
         fullmove_number |-> fullmove_number_after(turn, fullmove_number),
         turn |-> Opposite(turn)]

\* The move application of the click handler aborted by the overflow of a
\* counter: the fields assigned before the addition have their new values,
\* the others are as they were.
ApplyMovePanic(from, to) ==
    /\ panicked' = TRUE
    /\ board' = move_application(from, to).placed
    /\ en_passant_target' = move_application(from, to).en_passant_target
    /\ promotion_square' = move_application(from, to).promotion_square
    /\ castling_rights' = move_application(from, to).castling_rights
    /\ halfmove_clock' =
          IF move_application(from, to).panic = "halfmove_clock"
          THEN halfmove_clock
          ELSE move_application(from, to).halfmove_clock
    /\ UNCHANGED <<fullmove_number, turn, selected, valid_moves,
                   show_possible_moves, has_ai_opponent, fen, loaded, plies,
                   region, overflow_checks>>

\* The move application of the click handler that runs to its end.
ApplyMoveDone(from, to) ==
    /\ board' = move_application(from, to).board
    /\ en_passant_target' = move_application(from, to).en_passant_target
    /\ promotion_square' = move_application(from, to).promotion_square
    /\ castling_rights' = move_application(from, to).castling_rights
    /\ halfmove_clock' = move_application(from, to).halfmove_clock
    /\ fullmove_number' = move_application(from, to).fullmove_number
    /\ turn' = move_application(from, to).turn
    /\ selected' = NoSquare
    /\ valid_moves' = {}
    /\ plies' = plies + 1
    /\ UNCHANGED <<show_possible_moves, has_ai_opponent, panicked, fen,
                   loaded, region,
                   overflow_checks>>

\* The move application of the click handler.
ApplyMove(from, to) ==
    IF move_application(from, to).panic # "none"
    THEN ApplyMovePanic(from, to)
    ELSE ApplyMoveDone(from, to)

\* The clearing of the selection without valid_moves.clear().
ClearSelection_keeping_moves ==
    /\ selected' = NoSquare
    /\ UNCHANGED <<board, turn, castling_rights, en_passant_target,
                   halfmove_clock, fullmove_number, valid_moves,
                   show_possible_moves, has_ai_opponent, promotion_square,
                   panicked, fen, loaded, plies, region,
                   overflow_checks>>

ClearSelection ==
    /\ selected' = NoSquare
    /\ valid_moves' = {}
    /\ UNCHANGED <<board, turn, castling_rights, en_passant_target,
                   halfmove_clock, fullmove_number, show_possible_moves,
                   has_ai_opponent, promotion_square, panicked, fen, loaded,
                   plies, region,
                   overflow_checks>>

Panic ==
    /\ panicked' = TRUE
    /\ UNCHANGED <<board, turn, castling_rights, en_passant_target,
                   halfmove_clock, fullmove_number, selected, valid_moves,
                   show_possible_moves, has_ai_opponent, promotion_square,
                   fen, loaded, plies, region,
                   overflow_checks>>

\* The selection aborted by a panic of generate_valid_moves: selected was
\* assigned before the call, valid_moves was not.
SelectPanic(sq) ==
    /\ panicked' = TRUE
    /\ selected' = sq
    /\ UNCHANGED <<board, turn, castling_rights, en_passant_target,
                   halfmove_clock, fullmove_number, valid_moves,
                   show_possible_moves, has_ai_opponent, promotion_square,
                   fen, loaded, plies, region, overflow_checks>>

\* The part of the click handler after the promotion block.
BoardClick(click) ==
    LET sq == coords_to_square(click)
    IN  IF sq # NoSquare
        THEN IF selected # NoSquare
             THEN IF selected = sq THEN ClearSelection
                  ELSE IF validate_move_panics(Self, selected, sq) THEN Panic
                  ELSE IF validate_move(Self, selected, sq)
                  THEN plies < MaxPly(region) /\ ApplyMove(selected, sq)
                  ELSE ClearSelection
             ELSE IF board[sq] # NoPiece /\ board[sq].color = turn
                  THEN IF generate_valid_moves_panics(Self, turn)
                       THEN SelectPanic(sq)
                       ELSE /\ selected' = sq
                            \* generate_valid_moves(turn) filtered on start = sq,
                            \* mapped to end: what its loops push for sq
                            /\ valid_moves' =
                                  {m[2] : m \in generate_valid_moves_from(Self, sq)}
                            /\ UNCHANGED <<board, turn, castling_rights,
                                           en_passant_target, halfmove_clock,
                                           fullmove_number, show_possible_moves,
                                           has_ai_opponent, promotion_square,
                                           panicked, fen, loaded, plies,
                                           region,
                                           overflow_checks>>
                  ELSE UNCHANGED vars
        ELSE ClearSelection

\* EventHandler::mouse_button_down_event for the left button.
mouse_button_down_event(click) ==
    /\ ~ panicked
    /\ loaded = "Ok"
    /\ IF promotion_square # NoSquare /\ board[promotion_square] = NoPiece
       THEN UNCHANGED vars
       ELSE IF /\ promotion_square # NoSquare
               /\ promotion_option(click, promotion_square) # 0
       THEN /\ board' = promote_pawn(board, promotion_square,
                            PromotionOptions[promotion_option(click, promotion_square)])
            /\ promotion_square' = NoSquare
            /\ UNCHANGED <<turn, castling_rights, en_passant_target,
                           halfmove_clock, fullmove_number, selected,
                           valid_moves, show_possible_moves, has_ai_opponent,
                           panicked, fen, loaded, plies, region,
                           overflow_checks>>
       ELSE BoardClick(click)

\* EventHandler::key_down_event for the M key.
key_down_event ==
    /\ ~ panicked
    /\ loaded = "Ok"
    /\ show_possible_moves' = ~ show_possible_moves
    /\ UNCHANGED <<board, turn, castling_rights, en_passant_target,
                   halfmove_clock, fullmove_number, selected, valid_moves,
                   has_ai_opponent, promotion_square, panicked, fen, loaded,
                   plies, region,
                   overflow_checks>>

\* ai_turn without the turn update.
ai_turn_keeps_turn(move) ==
    /\ board' = [board EXCEPT ![move[1]] = NoPiece,
                              ![move[2]] = [board[move[1]] EXCEPT !.has_moved = TRUE]]
    /\ plies' = plies + 1
    /\ UNCHANGED <<turn, castling_rights, en_passant_target, halfmove_clock,
                   fullmove_number, selected, valid_moves,
                   show_possible_moves, has_ai_opponent, promotion_square,
                   panicked, fen, loaded, region,
                   overflow_checks>>

\* ChessGame::ai_turn with the move choose_ai_move returned.
ai_turn(move) ==
    LET start == move[1]
        end == move[2]
        piece == [board[start] EXCEPT !.has_moved = TRUE]
    IN  /\ board' = [board EXCEPT ![start] = NoPiece, ![end] = piece]
        /\ turn' = Opposite(turn)
        /\ plies' = plies + 1
        /\ UNCHANGED <<castling_rights, en_passant_target, halfmove_clock,
                       fullmove_number, selected, valid_moves,
                       show_possible_moves, has_ai_opponent, promotion_square,
                       panicked, fen, loaded, region,
                       overflow_checks>>

\* EventHandler::update.
update ==
    /\ ~ panicked
    /\ loaded = "Ok"
    /\ IF has_ai_opponent /\ turn = "Black"
       THEN IF generate_valid_moves_panics(Self, turn) THEN Panic
            ELSE /\ plies < MaxPly(region)
                 /\ LET move == choose_ai_move(Self)
                    IN  IF move # NoSquare THEN ai_turn(move) ELSE UNCHANGED vars
       ELSE UNCHANGED vars

Next ==
    \/ \E click \in Clicks(region) : mouse_button_down_event(click)
    \/ key_down_event
    \/ update

Spec == Init /\ [][Next]_vars

SpecFools == InitFools /\ [][Next]_vars

SpecCastle == InitCastle /\ [][Next]_vars

SpecCastleQ == InitCastleQ /\ [][Next]_vars

SpecEnPassant == InitEnPassant /\ [][Next]_vars

SpecFen == InitFen /\ [][Next]_vars

SpecCodec == InitCodec /\ [][Next]_vars

SpecPromotion == InitPromotion /\ [][Next]_vars

SpecMalformed == InitMalformed /\ [][Next]_vars

SpecCastleOff == InitCastleOff /\ [][Next]_vars

SpecOverflow == InitOverflow /\ [][Next]_vars

----------------------------------------------------------------------------
(* Properties                                                              *)

KingCount(b, color) ==
    Cardinality({sq \in Squares : b[sq].piece_type = "King" /\ b[sq].color = color})

\* A board after the piece on from was moved to to, as a click applies it.
Moved(b, from, to) ==
    [b EXCEPT ![from] = NoPiece, ![to] = [b[from] EXCEPT !.has_moved = TRUE]]

\* A king's move of two columns along its row.
IsCastlingMove(b, from, to) ==
    /\ b[from].piece_type = "King"
    /\ from[1] = to[1]
    /\ Abs(to[2] - from[2]) = 2

\* This step is a move applied by the click handler, from the selected
\* square to the square to.  (ai_turn leaves selected as it is.)
ClickApplied(to) ==
    /\ selected # NoSquare
    /\ selected' = NoSquare
    /\ plies' = plies + 1
    /\ validate_move(Self, selected, to)
    /\ board'[selected] = NoPiece
    /\ board'[to] = [board[selected] EXCEPT !.has_moved = TRUE]

\* C1: every move validate_move accepts leaves the mover's own king on a
\* square that no opposing piece attacks on the board after the move.
C1_SelfCheckRule ==
    \A m \in generate_valid_moves(Self, turn) :
        LET after == simulate(Self, m[1], m[2])
            king == find_king(after, turn)
        IN  king # NoSquare => ~ is_square_attacked(after, king, turn)

\* C2: validate_move accepts no move whose destination square holds a king.
C2_NoKingCapture ==
    \A m \in generate_valid_moves(Self, turn) : board[m[2]].piece_type # "King"

\* C3: the board always holds exactly one white king and one black king, and
\* find_king(..).unwrap() never fails.
C3_OneKingEach ==
    /\ KingCount(board, "White") = 1
    /\ KingCount(board, "Black") = 1
    /\ ~ panicked

\* C4: validate_move rejects a castling move whenever the king's start
\* square, the square it passes over or its destination is attacked by an
\* opposing piece.
C4_NoCastlingThroughAttack ==
    \A m \in generate_valid_moves(Self, turn) :
        LET from == m[1]
            to == m[2]
            pass == <<m[1][1], (m[1][2] + m[2][2]) \div 2>>
        IN  IsCastlingMove(board, from, to) =>
                /\ ~ is_square_attacked(Self, from, turn)
                /\ ~ is_square_attacked(Self, pass, turn)
                /\ ~ is_square_attacked(simulate(Self, from, to), to, turn)

\* C5: validate_move accepts a castling move only if every square strictly
\* between the king's square and the rook's corner is empty.
C5_CastlingPathEmpty ==
    \A m \in generate_valid_moves(Self, turn) :
        LET from == m[1]
            to == m[2]
            rook_col == IF to[2] > from[2] THEN 7 ELSE 0
        IN  IsCastlingMove(board, from, to) =>
                \A col \in Rows :
                    (\/ (from[2] < col /\ col < rook_col)
                     \/ (rook_col < col /\ col < from[2]))
                    => board[<<from[1], col>>] = NoPiece

\* C6: when the click handler applies a pawn's diagonal move onto the empty
\* en_passant_target square, the enemy pawn on (from.row, to.col) is removed,
\* en_passant_target becomes absent and halfmove_clock becomes 0.
C6_EnPassantCapture ==
    [][\A to \in Squares :
          (/\ ClickApplied(to)
           /\ board[selected].piece_type = "Pawn"
           /\ to[2] # selected[2]
           /\ board[to] = NoPiece
           /\ to = en_passant_target)
          => /\ board'[<<selected[1], to[2]>>] = NoPiece
             /\ en_passant_target' = NoSquare
             /\ halfmove_clock' = U32(0)]_vars

\* The castling flag that belongs to a rook's corner, "" for other squares.
CornerFlag(sq) ==
    CASE sq = <<7, 7>> -> "K"
      [] sq = <<7, 0>> -> "Q"
      [] sq = <<0, 7>> -> "k"
      [] sq = <<0, 0>> -> "q"
      [] OTHER -> ""

\* C7: after a move applied by the click handler, castling_rights has lost
\* both flags of a colour whose king moved, and the flag of a corner that a
\* rook moved away from or on which a rook was captured.
C7_CastlingRightsDropped ==
    [][\A to \in Squares :
          ClickApplied(to) =>
            /\ (board[selected].piece_type = "King" /\ board[selected].color = "White")
                 => (~ Contains(castling_rights', "K") /\ ~ Contains(castling_rights', "Q"))
            /\ (board[selected].piece_type = "King" /\ board[selected].color = "Black")
                 => (~ Contains(castling_rights', "k") /\ ~ Contains(castling_rights', "q"))
            /\ (board[selected].piece_type = "Rook" /\ CornerFlag(selected) # "")
                 => ~ Contains(castling_rights', CornerFlag(selected))
            /\ (board[to].piece_type = "Rook" /\ CornerFlag(to) # "")
                 => ~ Contains(castling_rights', CornerFlag(to))]_vars

\* The board after f2-f3, e7-e5, g2-g4, Qd8-h4.
FoolsMateBoard ==
    Moved(Moved(Moved(Moved(new_standard, <<6, 5>>, <<5, 5>>), <<1, 4>>, <<3, 4>>),
                <<6, 6>>, <<4, 6>>), <<0, 3>>, <<4, 7>>)

\* C8: after f2-f3, e7-e5, g2-g4, Qd8-h4 applied through the click handler,
\* White is to move and generate_valid_moves(White) is empty.
C8_FoolsMate ==
    (plies = 4 /\ board = FoolsMateBoard)
        => (turn = "White" /\ generate_valid_moves(Self, "White") = {})

\* C9: in the constructed opening White has exactly 20 moves, 16 of pawns
\* and 4 of knights, and after any one of them is applied Black has exactly
\* 20 moves.
C9_OpeningCounts ==
    /\ plies = 0 =>
          LET moves == generate_valid_moves(Self, "White")
          IN  /\ turn = "White"
              /\ Cardinality(moves) = 20
              /\ Cardinality({m \in moves : board[m[1]].piece_type = "Pawn"}) = 16
              /\ Cardinality({m \in moves : board[m[1]].piece_type = "Knight"}) = 4
    /\ plies = 1 =>
          /\ turn = "Black"
          /\ Cardinality(generate_valid_moves(Self, "Black")) = 20

\* After 1. e4, applied by a click, Black has 20 moves.
C9_Witness ==
    /\ plies = 1
    /\ board = Moved(new_standard, <<6, 4>>, <<4, 4>>)
    /\ en_passant_target = <<5, 4>>
    /\ Cardinality(generate_valid_moves(Self, "Black")) = 20

\* C10: the position from_fen loads from the standard opening FEN has the
\* kind and colour of the constructed opening on every square, White to move
\* and castling rights KQkq, and White has 20 moves in it.
C10_StandardFenIsOpening ==
    (plies = 0 /\ fen = StandardFen) =>
        /\ \A sq \in Squares :
              /\ board[sq].piece_type = new_standard[sq].piece_type
              /\ board[sq].color = new_standard[sq].color
        /\ turn = "White"
        /\ castling_rights = <<"K", "Q", "k", "q">>
        /\ Cardinality(generate_valid_moves(Self, "White")) = 20

\* rnbqkbnr/pppppppp/8/8/4P3/8/PPPP1PPP/RNBQKBNR b KQkq e3 0 1
FenAfterE4 ==
    <<"r", "n", "b", "q", "k", "b", "n", "r", "/",
      "p", "p", "p", "p", "p", "p", "p", "p", "/",
      "8", "/", "8", "/", "4", "P", "3", "/", "8",
      "/", "P", "P", "P", "P", "1", "P", "P", "P",
      "/", "R", "N", "B", "Q", "K", "B", "N", "R",
      " ", "b", " ", "K", "Q", "k", "q", " ", "e",
      "3", " ", "0", " ", "1">>

\* C11: after the click handler applies e2-e4 to the constructed opening,
\* to_fen returns rnbqkbnr/pppppppp/8/8/4P3/8/PPPP1PPP/RNBQKBNR b KQkq e3 0 1.
C11_FenAfterE4 ==
    (plies = 1 /\ fen = NoFen /\ board = Moved(new_standard, <<6, 4>>, <<4, 4>>))
        => to_fen(Self) = FenAfterE4

\* C12 as stated: every well-formed six-field FEN string, whatever the size
\* of its counters, is loaded by from_fen and given back by to_fen.
C12_RoundTripAnyCounter ==
    (fen # NoFen /\ plies = 0) => (loaded = "Ok" /\ to_fen(Self) = fen)

\* C12, amended: every well-formed six-field FEN string whose counters are at
\* most u32::MAX is loaded by from_fen and given back by to_fen.
C12_RoundTrip ==
    (fen \in ValidFens /\ plies = 0) => (loaded = "Ok" /\ to_fen(Self) = fen)

\* 4K3/7p/8/8/8/8/P7/4k3 b Kq e3 12 40 loaded and given back.
C12_Witness ==
    /\ fen = Fen(PawnsPlacement, <<"b">>, <<"K", "q">>, <<"e", "3">>,
                 <<"1", "2">>, <<"4", "0">>)
    /\ plies = 0
    /\ loaded = "Ok"
    /\ board[<<1, 0>>] = Piece("Pawn", "White")
    /\ halfmove_clock = U32(12)
    /\ to_fen(Self) = fen

\* C13: while a promotion is pending no move is applied: a step either
\* leaves the board and the side to move as they are, or it is the promotion
\* choice, which changes the promotion square only.
C13_PromotionBlocksMoves ==
    [][promotion_square # NoSquare =>
          \/ (board' = board /\ turn' = turn)
          \/ /\ promotion_square' = NoSquare
             /\ turn' = turn
             /\ \A sq \in Squares \ {promotion_square} : board'[sq] = board[sq]]_vars

\* C14: when a promotion is pending and a click picks one of the four
\* options, the pawn on promotion_square becomes a piece of the chosen kind
\* and of its own colour, promotion_square becomes absent, and no other
\* square and not the side to move changes.
C14_PromotionChoice ==
    [][\A click \in Clicks(region) :
          (/\ promotion_square # NoSquare
           /\ board[promotion_square].piece_type = "Pawn"
           /\ promotion_option(click, promotion_square) # 0
           /\ mouse_button_down_event(click))
          => /\ board'[promotion_square].piece_type =
                    PromotionOptions[promotion_option(click, promotion_square)]
             /\ board'[promotion_square].color = board[promotion_square].color
             /\ \A sq \in Squares \ {promotion_square} : board'[sq] = board[sq]
             /\ promotion_square' = NoSquare
             /\ turn' = turn]_vars

\* The white pawn moved to (0,0) and was made a rook by a click on the
\* second option.
C14_Witness ==
    /\ plies = 1
    /\ promotion_square = NoSquare
    /\ board[<<0, 0>>].piece_type = "Rook"
    /\ board[<<0, 0>>].color = "White"
    /\ board[<<1, 0>>] = NoPiece

\* This step is a move applied by ai_turn.  (A move applied by a click
\* clears selected, which was set.)
AiApplied ==
    /\ has_ai_opponent
    /\ turn = "Black"
    /\ plies' = plies + 1
    /\ selected' = selected

\* C15: the position after ai_turn is the position the move application of
\* the click handler produces for the move choose_ai_move returned.
C15_AiUsesExecutor ==
    [][AiApplied =>
          LET move == choose_ai_move(Self)
              applied == move_application(move[1], move[2])
          IN  /\ board' = applied.board
              /\ en_passant_target' = applied.en_passant_target
              /\ promotion_square' = applied.promotion_square
              /\ castling_rights' = applied.castling_rights
              /\ halfmove_clock' = applied.halfmove_clock
              /\ fullmove_number' = applied.fullmove_number
              /\ turn' = applied.turn]_vars

\* C16: after a move applied by the click handler halfmove_clock is 0 if a
\* pawn moved or a piece was captured, and one more than before otherwise.
C16_HalfmoveClock ==
    [][\A to \in Squares :
          ClickApplied(to) =>
              halfmove_clock' =
                  IF board[selected].piece_type = "Pawn" \/ board[to] # NoPiece
                  THEN U32(0) ELSE PlusOne(halfmove_clock)]_vars

\* C17: after a move applied by the click handler en_passant_target is the
\* square midway between from and to if a pawn advanced two rows, and absent
\* otherwise.
C17_EnPassantTarget ==
    [][\A to \in Squares :
          ClickApplied(to) =>
              en_passant_target' =
                  IF /\ board[selected].piece_type = "Pawn"
                     /\ Abs(to[1] - selected[1]) = 2
                  THEN <<(selected[1] + to[1]) \div 2, to[2]>>
                  ELSE NoSquare]_vars

\* After 1. e4 a6 2. e5 d5, all by clicks, the target is d6.
C17_Witness ==
    /\ plies = 4
    /\ en_passant_target = <<2, 3>>
    /\ board[<<3, 3>>].piece_type = "Pawn"
    /\ board[<<1, 3>>] = NoPiece

\* The row step of a colour's pawns.
PawnDirection(color) == IF color = "White" THEN -1 ELSE 1

\* C18: en_passant_target, when present, is on row 2 with Black to move and
\* on row 5 with White to move, and the next square in the direction of
\* travel holds a pawn of the side that just moved.
C18_EnPassantTargetPlace ==
    en_passant_target # NoSquare =>
        LET mover == Opposite(turn)
            landed == <<en_passant_target[1] + PawnDirection(mover),
                        en_passant_target[2]>>
        IN  /\ en_passant_target[1] = (IF turn = "Black" THEN 2 ELSE 5)
            /\ landed \in Squares
            /\ board[landed].piece_type = "Pawn"
            /\ board[landed].color = mover

\* C19: a step that applies a move gives the turn to the other colour and
\* no other step changes turn.
C19_TurnAlternates ==
    [][/\ (plies' = plies + 1) => (turn' = Opposite(turn))
       /\ (plies' = plies) => (turn' = turn)]_vars

\* A click, the opponent's reply and a second click have been applied and
\* Black is to move.
C19_Witness ==
    /\ has_ai_opponent
    /\ plies = 3
    /\ turn = "Black"

\* C20: after a move applied by the click handler fullmove_number is one
\* more than before if Black moved and unchanged if White moved.
C20_FullmoveNumber ==
    [][\A to \in Squares :
          ClickApplied(to) =>
              fullmove_number' =
                  IF turn = "Black" THEN PlusOne(fullmove_number)
                  ELSE fullmove_number]_vars

\* White and Black have each moved once by clicks.
C20_Witness ==
    /\ ~ has_ai_opponent
    /\ plies = 2
    /\ turn = "White"
    /\ fullmove_number = U32(2)

CastlingFlags == {"K", "Q", "k", "q"}

\* C21: along any sequence of applied moves, by the user or the opponent,
\* the set of castling flags in castling_rights only shrinks: no step adds a
\* flag that the position before it lacked.
C21_CastlingFlagsShrink ==
    [][\A flag \in CastlingFlags :
          Contains(castling_rights', flag) => Contains(castling_rights, flag)]_vars

\* Loaded with the flags Kq, the rook on (0,0) has moved to (1,0).
C21_Witness ==
    /\ plies = 1
    /\ fen # NoFen
    /\ board[<<1, 0>>].piece_type = "Rook"
    /\ board[<<0, 0>>] = NoPiece
    /\ Contains(castling_rights, "K")
    /\ ~ Contains(castling_rights, "Q")

\* The row a pawn of the colour starts the game on.
PawnStartRow(color) == IF color = "White" THEN 6 ELSE 1

\* C22: in a position loaded by from_fen, validate_move accepts a
\* two-square pawn advance only for a pawn standing on its starting row,
\* row 6 for White and row 1 for Black.
C22_TwoSquareAdvanceFromStartRow ==
    (fen # NoFen /\ loaded = "Ok" /\ plies = 0) =>
        \A start \in Squares, end \in Squares :
            (/\ board[start].piece_type = "Pawn"
             /\ end[2] = start[2]
             /\ Abs(end[1] - start[1]) = 2
             /\ validate_move(Self, start, end))
                => start[1] = PawnStartRow(board[start].color)

\* C23: from_fen returns Err for every input whose number of
\* whitespace-separated fields is not six, fewer or more.
C23_FieldCountChecked ==
    (fen \in WrongFieldCountFens) => loaded = "Err"

\* C24: from_fen returns Err, a value and not a crash, for every placement
\* field with a rank whose pieces and empty runs do not sum to 8, below 8
\* or above it.
C24_RankSumChecked ==
    (fen \in WrongRankSumFens) => loaded = "Err"

\* The legality conditions as the specification states them.

Max(x, y) == IF x > y THEN x ELSE y

\* The squares strictly between two squares of a row, column or diagonal.
Between(from, to) ==
    {<<from[1] + i * Signum(to[1] - from[1]), from[2] + i * Signum(to[2] - from[2])>> :
        i \in 1 .. (Max(Abs(to[1] - from[1]), Abs(to[2] - from[2])) - 1)}

Forward(color) == IF color = "White" THEN -1 ELSE 1

\* The attacking geometry of the piece on from towards to.
attacks(b, from, to) ==
    LET kind == b[from].piece_type
        dr == to[1] - from[1]
        dc == to[2] - from[2]
        straight == (dr = 0 \/ dc = 0) /\ \A sq \in Between(from, to) : b[sq] = NoPiece
        diagonal == Abs(dr) = Abs(dc) /\ \A sq \in Between(from, to) : b[sq] = NoPiece
    IN  /\ from # to
        /\ CASE kind = "Pawn"   -> dr = Forward(b[from].color) /\ Abs(dc) = 1
              [] kind = "Knight" -> {Abs(dr), Abs(dc)} = {1, 2}
              [] kind = "Bishop" -> diagonal
              [] kind = "Rook"   -> straight
              [] kind = "Queen"  -> straight \/ diagonal
              [] kind = "King"   -> Max(Abs(dr), Abs(dc)) = 1
              [] OTHER           -> FALSE

is_attacked(b, square, by_color) ==
    \E from \in Squares : b[from].color = by_color /\ attacks(b, from, square)

HomeRow(color) == IF color = "White" THEN 7 ELSE 0

legal_castling(g, from, to) ==
    LET color == g.board[from].color
        row == HomeRow(color)
        king_side == to[2] > from[2]
        flag == IF color = "White" THEN (IF king_side THEN "K" ELSE "Q")
                ELSE (IF king_side THEN "k" ELSE "q")
        corner == <<row, IF king_side THEN 7 ELSE 0>>
        crossed == <<row, IF king_side THEN 5 ELSE 3>>
    IN  /\ from = <<row, 4>>
        /\ to[1] = row
        /\ Abs(to[2] - from[2]) = 2
        /\ Contains(g.castling_rights, flag)
        /\ \A sq \in Between(from, corner) : g.board[sq] = NoPiece
        /\ g.board[corner].piece_type = "Rook"
        /\ g.board[corner].color = color
        /\ \A sq \in {from, crossed, to} : ~ is_attacked(g.board, sq, Opposite(color))

\* The piece-specific predicate of the piece on from.
legal_geometry(g, from, to) ==
    LET piece == g.board[from]
        dr == to[1] - from[1]
        dc == to[2] - from[2]
        d == Forward(piece.color)
        clear == \A sq \in Between(from, to) : g.board[sq] = NoPiece
    IN  CASE piece.piece_type = "Pawn" ->
                \/ dr = d /\ dc = 0 /\ g.board[to] = NoPiece
                \/ /\ dr = 2 * d
                   /\ dc = 0
                   /\ ~ piece.has_moved
                   /\ g.board[<<from[1] + d, from[2]>>] = NoPiece
                   /\ g.board[to] = NoPiece
                \/ /\ dr = d
                   /\ Abs(dc) = 1
                   /\ (g.board[to] # NoPiece \/ to = g.en_passant_target)
          [] piece.piece_type = "Knight" -> {Abs(dr), Abs(dc)} = {1, 2}
          [] piece.piece_type = "Bishop" -> Abs(dr) = Abs(dc) /\ dr # 0 /\ clear
          [] piece.piece_type = "Rook"   -> (dr = 0 \/ dc = 0) /\ from # to /\ clear
          [] piece.piece_type = "Queen"  ->
                /\ (dr = 0 \/ dc = 0 \/ Abs(dr) = Abs(dc))
                /\ from # to
                /\ clear
          [] piece.piece_type = "King"   ->
                Max(Abs(dr), Abs(dc)) = 1 \/ legal_castling(g, from, to)

\* The board after the move: the piece goes from from to to, a pawn taken
\* en passant leaves (from.row, to.col) and a castling rook goes to the
\* square the king crossed.
board_after(g, from, to) ==
    LET piece == g.board[from]
        moved == [g.board EXCEPT ![from] = NoPiece, ![to] = piece]
        en_passant == /\ piece.piece_type = "Pawn"
                      /\ to[2] # from[2]
                      /\ g.board[to] = NoPiece
        castling == piece.piece_type = "King" /\ Abs(to[2] - from[2]) = 2
        corner == <<from[1], IF to[2] > from[2] THEN 7 ELSE 0>>
        crossed == <<from[1], IF to[2] > from[2] THEN 5 ELSE 3>>
    IN  IF en_passant THEN [moved EXCEPT ![<<from[1], to[2]>>] = NoPiece]
        ELSE IF castling
        THEN [moved EXCEPT ![corner] = NoPiece, ![crossed] = g.board[corner]]
        ELSE moved

\* The five conditions; the fifth presupposes that the mover has a king.
is_legal(g, from, to) ==
    /\ from \in Squares
    /\ to \in Squares
    /\ g.board[from] # NoPiece
    /\ g.board[from].color = g.turn
    /\ g.board[to].color # g.turn
    /\ legal_geometry(g, from, to)
    /\ LET after == board_after(g, from, to)
           kings == {sq \in Squares : /\ after[sq].piece_type = "King"
                                      /\ after[sq].color = g.turn}
       IN  /\ kings # {}
           /\ \A king \in kings : ~ is_attacked(after, king, Opposite(g.turn))

\* C25: validate_move accepts every move that satisfies the five legality
\* conditions: no legal move is rejected.
C25_ValidatorComplete ==
    (loaded = "Ok" /\ ~ panicked) =>
        \A from \in {sq \in Squares : board[sq].color = turn}, to \in Squares :
            is_legal(Self, from, to) =>
                (~ validate_move_panics(Self, from, to) /\ validate_move(Self, from, to))

\* White may castle king-side, a legal move, and validate_move accepts it.
C25_Witness ==
    /\ turn = "White"
    /\ is_legal(Self, <<7, 4>>, <<7, 6>>)
    /\ validate_move(Self, <<7, 4>>, <<7, 6>>)

\* C26: for either colour c and every position with a king of c,
\* is_king_in_check(c) is true exactly when is_square_attacked holds of the
\* king's square, whichever side is to move.
C26_CheckIsAttack ==
    (loaded = "Ok" /\ ~ panicked) =>
        \A c \in {"White", "Black"} :
            find_king(Self, c) # NoSquare =>
                (is_king_in_check(Self, c) <=> is_square_attacked(Self, find_king(Self, c), c))

\* C27: choose_ai_move returns None exactly when the side to move has no
\* move that validate_move accepts; otherwise it returns an accepted move
\* whose score_move value is at least that of every other accepted move.
\* It is a function of the position.
C27_AiChoice ==
    (loaded = "Ok" /\ ~ panicked /\ ~ generate_valid_moves_panics(Self, turn)) =>
        LET moves == generate_valid_moves(Self, turn)
            move == choose_ai_move(Self)
        IN  /\ (move = NoSquare) <=> (moves = {})
            /\ (move # NoSquare) =>
                  /\ move \in moves
                  /\ \A other \in moves :
                        score_move(Self, move[1], move[2])
                            >= score_move(Self, other[1], other[2])

\* The opponent is to move and its choice beats some accepted move.
C27_Witness ==
    /\ loaded = "Ok"
    /\ has_ai_opponent
    /\ turn = "Black"
    /\ choose_ai_move(Self) # NoSquare
    /\ \E other \in generate_valid_moves(Self, turn) :
          score_move(Self, choose_ai_move(Self)[1], choose_ai_move(Self)[2])
              > score_move(Self, other[1], other[2])

\* C28: with has_ai_opponent set, under every interleaving of clicks and
\* update calls, the click handler never applies a move of a black piece,
\* and a move that no click applied (one of ai_turn) is applied only when
\* Black is to move.
C28_SidesKeptApart ==
    [][has_ai_opponent =>
          /\ \A to \in Squares : ClickApplied(to) => board[selected].color # "Black"
          /\ (plies' = plies + 1 /\ selected' = selected) => turn = "Black"]_vars

\* What a click that is rejected as a move, or that selects nothing, does
\* to the position and the selection.
RejectedClick(click) ==
    LET sq == coords_to_square(click)
    IN  /\ (/\ selected # NoSquare
            /\ sq # NoSquare
            /\ ~ validate_move_panics(Self, selected, sq)
            /\ ~ validate_move(Self, selected, sq))
               => /\ UNCHANGED <<board, turn, castling_rights, en_passant_target,
                                 halfmove_clock, fullmove_number>>
                  /\ selected' = NoSquare
                  /\ valid_moves' = {}
        /\ (selected = NoSquare /\ sq # NoSquare /\ board[sq].color # turn)
               => UNCHANGED <<board, turn, castling_rights, en_passant_target,
                              halfmove_clock, fullmove_number, selected, valid_moves>>

\* The claim as it stands: a click that attempts an illegal move leaves
\* the position unchanged and clears selected and valid_moves, and a click
\* on an empty or enemy-occupied square while nothing is selected changes
\* none of these.
C29_RejectedClickAnyState ==
    [][\A click \in Clicks(region) :
          mouse_button_down_event(click) => RejectedClick(click)]_vars

\* C29: while no promotion is pending, a click that attempts an illegal
\* move leaves board, turn, castling_rights, en_passant_target,
\* halfmove_clock and fullmove_number unchanged and clears selected and
\* valid_moves, and a click on an empty or enemy-occupied square while
\* nothing is selected changes none of these.
C29_RejectedClick ==
    [][\A click \in Clicks(region) :
          (promotion_square = NoSquare /\ mouse_button_down_event(click))
              => RejectedClick(click)]_vars

\* After a move, a piece with moves is selected, no promotion is pending
\* and some click on the board would be an illegal move.
C29_Witness ==
    /\ plies >= 1
    /\ loaded = "Ok"
    /\ ~ panicked
    /\ promotion_square = NoSquare
    /\ selected # NoSquare
    /\ valid_moves # {}
    /\ \E click \in Clicks(region) :
          /\ coords_to_square(click) # NoSquare
          /\ ~ validate_move(Self, selected, coords_to_square(click))

\* A pawn went two squares along its column to sq in this step.
TwoSquareAdvanceTo(sq) ==
    /\ board'[sq].piece_type = "Pawn"
    /\ board[sq] = NoPiece
    /\ \E origin \in Squares :
          /\ origin[2] = sq[2]
          /\ Abs(origin[1] - sq[1]) = 2
          /\ board[origin].piece_type = "Pawn"
          /\ board[origin].color = board'[sq].color
          /\ board'[origin] = NoPiece

\* C30: en passant is available for exactly one ply: whenever, in the
\* position an applied move (of the user or of the opponent) produces,
\* validate_move accepts a pawn's diagonal move onto an empty square, an
\* enemy pawn that made a two-square advance in that applied move stands on
\* (from.row, to.col).
C30_EnPassantOnePly ==
    [][(plies' = plies + 1) =>
          \A from \in Squares, to \in Squares :
              (/\ board'[from].piece_type = "Pawn"
               /\ to[2] # from[2]
               /\ board'[to] = NoPiece
               /\ validate_move(Self', from, to))
                  => /\ board'[<<from[1], to[2]>>].color = Opposite(board'[from].color)
                     /\ TwoSquareAdvanceTo(<<from[1], to[2]>>)]_vars

PieceCount(b, color) == Cardinality({sq \in Squares : b[sq].color = color})

\* C31: every applied move, by a click (castling included) or by ai_turn,
\* leaves the number of the mover's pieces unchanged and lowers the number
\* of the opponent's pieces by at most one.
C31_MaterialConserved ==
    [][(plies' = plies + 1) =>
          /\ PieceCount(board', turn) = PieceCount(board, turn)
          /\ PieceCount(board', Opposite(turn)) \in
                {PieceCount(board, Opposite(turn)), PieceCount(board, Opposite(turn)) - 1}]_vars

\* The piece-specific predicate without castling: a king goes one step.
geometric_predicate(g, from, to) ==
    IF g.board[from].piece_type = "King"
    THEN Max(Abs(to[1] - from[1]), Abs(to[2] - from[2])) = 1
    ELSE legal_geometry(g, from, to)

\* C32: every move validate_move accepts that is not a castling move
\* satisfies the geometric predicate of the moving piece: the knight's jump,
\* the bishop's, rook's and queen's lines with every square between empty,
\* the king's single step, and the pawn's push, double push from an unmoved
\* pawn over two empty squares, and diagonal step onto an enemy piece or
\* onto en_passant_target.
C32_AcceptedMovesFitGeometry ==
    (loaded = "Ok" /\ ~ panicked) =>
        \A from \in {sq \in Squares : board[sq].color = turn}, to \in Squares :
            (validate_move(Self, from, to) /\ ~ IsCastlingMove(board, from, to))
                => geometric_predicate(Self, from, to)

\* Loaded from r3k2r/1b6/8/2pP4/8/5N2/8/R3K2Q with White to move: the
\* queen may take the rook at the other end of its column.
C32_Witness ==
    /\ loaded = "Ok"
    /\ turn = "White"
    /\ board[<<0, 7>>].piece_type = "Queen"
    /\ board[<<7, 7>>].piece_type = "Rook"
    /\ validate_move(Self, <<0, 7>>, <<7, 7>>)
    /\ geometric_predicate(Self, <<0, 7>>, <<7, 7>>)

\* C33: validate_move accepts no one-square king move, quiet or capturing,
\* onto a square that an opposing piece attacks on the board as it stands
\* after the move.
C33_KingStepNotIntoAttack ==
    (loaded = "Ok" /\ ~ panicked) =>
        \A from \in {sq \in Squares : board[sq].color = turn /\ board[sq].piece_type = "King"},
           to \in Squares :
            (/\ Max(Abs(to[1] - from[1]), Abs(to[2] - from[2])) = 1
             /\ validate_move(Self, from, to))
                => ~ is_attacked([board EXCEPT ![from] = NoPiece, ![to] = board[from]],
                                 to, Opposite(turn))

\* The white king stands on (7,5) next to (7,6), which the black pawn on
\* (6,7) attacks: the step onto (7,6) is rejected, the step back accepted.
C33_Witness ==
    /\ loaded = "Ok"
    /\ turn = "White"
    /\ board[<<7, 5>>] # NoPiece
    /\ board[<<7, 5>>].piece_type = "King"
    /\ board[<<6, 7>>].piece_type = "Pawn"
    /\ board[<<6, 7>>].color = "Black"
    /\ ~ validate_move(Self, <<7, 5>>, <<7, 6>>)
    /\ validate_move(Self, <<7, 5>>, <<7, 4>>)

\* C34: is_square_attacked(sq, c) is true exactly when some piece of the
\* colour opposite to c, standing on a square other than sq, has attacking
\* geometry to sq: a pawn one step diagonally forward, a knight's jump, a
\* king one step away, or a bishop, rook or queen along its line with every
\* square between empty.
C34_AttackOracle ==
    (loaded = "Ok" /\ ~ panicked) =>
        \A sq \in Squares, c \in {"White", "Black"} :
            is_square_attacked(Self, sq, c) <=> is_attacked(board, sq, Opposite(c))

\* C35: when the click handler applies a castling move, a king's move of
\* two columns, the rook leaves its corner and stands on the square the king
\* crossed, on the f-file king-side and on the d-file queen-side, while the
\* king stands on its destination.
C35_CastlingRook ==
    [][\A to \in Squares :
          (ClickApplied(to) /\ IsCastlingMove(board, selected, to)) =>
              LET king_side == to[2] > selected[2]
                  corner == <<to[1], IF king_side THEN 7 ELSE 0>>
                  crossed == <<to[1], (selected[2] + to[2]) \div 2>>
              IN  /\ board'[to].piece_type = "King"
                  /\ board'[corner] = NoPiece
                  /\ board'[crossed].piece_type = "Rook"
                  /\ board'[crossed].color = board[selected].color
                  /\ crossed[2] = IF king_side THEN 5 ELSE 3]_vars

\* C36: in every reachable state, when selected is present valid_moves is
\* the set of the destinations to for which validate_move(selected, to)
\* holds in the current position, and when selected is absent valid_moves
\* is empty.
C36_ValidMovesCurrent ==
    (loaded = "Ok" /\ ~ panicked) =>
        IF selected # NoSquare
        THEN valid_moves = {to \in Squares : validate_move(Self, selected, to)}
        ELSE valid_moves = {}

\* C37: choose_ai_move returns a king move only when it is forced, that is
\* only when the side to move has no accepted move of another piece.
C37_KingMoveOnlyForced ==
    (loaded = "Ok" /\ ~ panicked /\ has_ai_opponent /\ turn = "Black"
        /\ ~ generate_valid_moves_panics(Self, turn)) =>
        LET move == choose_ai_move(Self)
        IN  (move # NoSquare /\ board[move[1]].piece_type = "King") =>
                \A other \in generate_valid_moves(Self, turn) :
                    board[other[1]].piece_type = "King"

\* C38: on every position with both kings every call of validate_move
\* returns, the recursion validate_move -> is_king_in_check ->
\* validate_move never nesting more than two validate_move calls deep.
C38_RecursionDepth ==
    (loaded = "Ok" /\ ~ panicked /\ KingCount(board, "White") >= 1
        /\ KingCount(board, "Black") >= 1) =>
        \A start \in Squares, end \in Squares :
            /\ ~ validate_move_aborts(Self, start, end)
            /\ validate_move_depth(Self, start, end) <= 2

\* The white knight on <<3, 4>> attacks the black king on <<1, 5>>, Black
\* to move; the call for the pawn step <<1, 0>> to <<2, 0>> nests two deep,
\* the inner calls being those for the white pieces onto the king's square.
C38_Witness ==
    /\ ~ panicked
    /\ board[<<1, 5>>] # NoPiece
    /\ board[<<1, 5>>].piece_type = "King"
    /\ board[<<1, 5>>].color = "Black"
    /\ board[<<3, 4>>] # NoPiece
    /\ board[<<3, 4>>].piece_type = "Knight"
    /\ board[<<3, 4>>].color = "White"
    /\ turn = "Black"
    /\ is_square_attacked(Self, <<1, 5>>, "Black")
    /\ is_valid(Self, <<1, 0>>, <<2, 0>>)
    /\ validate_move_depth(Self, <<1, 0>>, <<2, 0>>) = 2

\* This step is a move applied by the click handler whose piece, taken from
\* the selected square, landed on the square to.
LandedOn(to) ==
    /\ selected # NoSquare
    /\ selected' = NoSquare
    /\ plies' = plies + 1
    /\ to # selected
    /\ validate_move(Self, selected, to)
    /\ board'[to] # NoPiece
    /\ board'[to].piece_type = board[selected].piece_type
    /\ board'[to].color = board[selected].color

\* A pawn's diagonal move onto an empty square.
IsEnPassantCapture(b, from, to) ==
    /\ b[from].piece_type = "Pawn"
    /\ from[2] # to[2]
    /\ b[to] = NoPiece

\* C39: a move applied by the click handler that is neither a castling move
\* nor an en-passant capture changes exactly two squares of the board: from
\* becomes empty and to holds the moved piece with has_moved = true; every
\* other square is as it was.
C39_OrdinaryMoveTwoSquares ==
    [][\A to \in Squares :
          (/\ LandedOn(to)
           /\ ~ IsCastlingMove(board, selected, to)
           /\ ~ IsEnPassantCapture(board, selected, to))
              => board' = Moved(board, selected, to)]_vars

\* g2-g4, e7-e5, g4-g5 and the capture Qd8xg5, applied through the click
\* handler without the opponent: the queen stands on g5 with has_moved set,
\* d8 is empty and the captured pawn is gone.
C39_Witness ==
    /\ ~ has_ai_opponent
    /\ plies = 4
    /\ selected = NoSquare
    /\ turn = "White"
    /\ board = Moved(Moved(Moved(Moved(new_standard, <<6, 6>>, <<4, 6>>),
                                  <<1, 4>>, <<3, 4>>),
                            <<4, 6>>, <<3, 6>>), <<0, 3>>, <<3, 6>>)
    /\ board[<<3, 6>>].piece_type = "Queen"
    /\ board[<<3, 6>>].has_moved

\* The castling flags a castling_rights string contains.
FlagsOf(rights) == {flag \in CastlingFlags : Contains(rights, flag)}

\* The game fields from_fen leaves in a new game given to_fen of the fields f,
\* with the status of the load.
Reloaded(f, checks) == from_fen(NewFields, to_fen(f), checks)

\* C40: for every position reached by play, from_fen(to_fen(pos)) succeeds
\* and restores the kind and colour of the piece on every square, the side to
\* move, en_passant_target, halfmove_clock, fullmove_number and the set of
\* castling flags; only has_moved flags may differ.
C40_PositionRoundTrip ==
    (loaded = "Ok" /\ ~ panicked) =>
        \A checks \in BOOLEAN :
            LET back == Reloaded(Self, checks)
            IN  /\ back.status = "Ok"
                /\ \A sq \in Squares :
                      /\ (back.fields.board[sq] = NoPiece) = (board[sq] = NoPiece)
                      /\ board[sq] # NoPiece =>
                            /\ back.fields.board[sq].piece_type = board[sq].piece_type
                            /\ back.fields.board[sq].color = board[sq].color
                /\ back.fields.turn = turn
                /\ back.fields.en_passant_target = en_passant_target
                /\ back.fields.halfmove_clock = halfmove_clock
                /\ back.fields.fullmove_number = fullmove_number
                /\ FlagsOf(back.fields.castling_rights) = FlagsOf(castling_rights)

\* After g2-g4 and e7-e5 the en passant target is e6: to_fen writes it,
\* from_fen reads the same square back, and the pawn on e5 comes back with
\* has_moved cleared.
C40_Witness ==
    /\ loaded = "Ok"
    /\ ~ panicked
    /\ plies = 2
    /\ board = Moved(Moved(new_standard, <<6, 6>>, <<4, 6>>), <<1, 4>>, <<3, 4>>)
    /\ en_passant_target = <<2, 4>>
    /\ Reloaded(Self, TRUE).status = "Ok"
    /\ Reloaded(Self, TRUE).fields.en_passant_target = <<2, 4>>
    /\ board[<<3, 4>>].has_moved
    /\ ~ Reloaded(Self, TRUE).fields.board[<<3, 4>>].has_moved

====
